---- MODULE Spec2Model ----
(***************************************************************************)
(* Macro regime classifier (src/app/regime/page.tsx and its older copy     *)
(* src/unnamed/part_000): the rule-based regime labeler, the random-forest *)
(* predictor and importance scorer, and the weekly long/short backtest.    *)
(*                                                                         *)
(* Numbers.  z-scores and thresholds are integers in hundredths (0.75 is   *)
(* 75).  Stock returns are integers in percent.  Weights, weekly returns   *)
(* and equity are exact rationals <<numerator, denominator>> in lowest     *)
(* terms; IEEE-754 rounding of the JavaScript doubles is not modelled.     *)
(* A JavaScript value that may be null is <<>> (null) or <<v>> (number v). *)
(***************************************************************************)
EXTENDS Integers, Sequences, FiniteSets, TLC

VARIABLES
    data,           \* labeler: the parsed rows handed to labelRegimes
    labeled,        \* labeler: the result of labelRegimes(data), <<>> before the call
    trees,          \* forest: the array of trees built by trainRandomForest
    sample,         \* forest: the row handed to predictRF
    probs,          \* forest: the vector returned by the latest predictRF call
    calls,          \* forest: how many predictRF(trees, sample) calls were made
    importance,     \* forest: the list returned by calcImportance, <<>> before the call
    dataStats,      \* page state: the statistics of the uploaded macro file
    processedData,  \* page state: labeled macro rows with their _dateKey, or null
    sectorData,     \* page state: sector return rows, or null
    stockData,      \* page state: stock return rows, or null
    backtest,       \* page state: the backtest result, or null
    selectedTradeDate,  \* page state: the trade date shown in the detail table
    activeTab,      \* page state: the tab shown
    step,           \* page state: "upload", "ready", "training", "results" or "error"
    model,          \* page state: the trained model, or null
    results,        \* page state: the training results, or null
    timers,         \* the setTimeout callbacks of handleTrain that have not run yet
    timezone,       \* the browser's offset from UTC, in hours
    alerted,        \* the alert() of the latest runBacktest call, "" when it raised none
    stack,          \* tree training: the trainDecisionTree calls entered and not yet run
    nodes,          \* tree training: what each finished trainDecisionTree call returned
    predicted,      \* handleTrain: the class reported for the latest predictRF vector, or null
    weekBooks,      \* backtest loop: per trade date, the stockRet of its long and short candidates
    weekIndex,      \* backtest loop: how many trade dates the loop has been through
    weekEquity,     \* backtest loop: the local equity
    weekCurve,      \* backtest loop: the local equityCurve
    weekLocals      \* backtest loop: the weights and weeklyRet of the running iteration, or null

labelVars == <<data, labeled>>
forestVars == <<trees, sample, probs, calls, importance>>
inputVars == <<dataStats, processedData, sectorData, stockData>>
backtestVars == <<dataStats, processedData, sectorData, stockData, backtest,
                  selectedTradeDate, activeTab>>
trainVars == <<step, model, results, timers, timezone>>
treeVars == <<stack, nodes, predicted>>
weekVars == <<weekBooks, weekIndex, weekEquity, weekCurve, weekLocals>>
vars == <<data, labeled, trees, sample, probs, calls, importance, dataStats,
          processedData, sectorData, stockData, backtest, selectedTradeDate, activeTab,
          step, model, results, timers, timezone, alerted, stack, nodes, predicted,
          weekBooks, weekIndex, weekEquity, weekCurve, weekLocals>>

-----------------------------------------------------------------------------
(* JavaScript helpers *)

Null == <<>>
Num(x) == <<x>>

\* v ?? d
Coalesce(v, d) == IF v = Null THEN d ELSE v[1]

\* useState initial values of the backtest part of the page, page.tsx 371-385
NoBacktestState ==
    /\ dataStats = Null /\ processedData = Null
    /\ sectorData = Null /\ stockData = Null
    /\ backtest = Null /\ selectedTradeDate = "" /\ activeTab = "overview"
    /\ step = "upload" /\ model = Null /\ results = Null /\ timers = <<>>
    /\ timezone = 0 /\ alerted = ""
    /\ stack = <<>> /\ nodes = {} /\ predicted = Null
    /\ weekBooks = <<>> /\ weekIndex = 0 /\ weekEquity = Null /\ weekCurve = <<>>
    /\ weekLocals = Null

-----------------------------------------------------------------------------
(* RegimeLabeler: labelRegimes, page.tsx 174-218 *)

\* The features labelRegimes reads, plus one it never reads (spx_ret_1w_z).
\* Values in hundredths, chosen on and around every threshold of the rules.
FeatureValues ==
    [ spx_ret_3w_z  |-> {Null, Num(-50), Num(-25), Num(25), Num(50), Num(100)},
      vix_z         |-> {Null, Num(-100), Num(-50), Num(-25), Num(25)},
      pmi_z         |-> {Null, Num(-25), Num(100)},
      breakeven10_z |-> {Null, Num(0), Num(-75), Num(-50), Num(60), Num(75), Num(100)},
      vvix_z        |-> {Null, Num(-30), Num(-20)},
      rv_3w_z       |-> {Null, Num(-10), Num(-20)},
      ip_yoy_z      |-> {Null, Num(50)},
      unemp_z       |-> {Null, Num(50)},
      cpi_yoy_z     |-> {Null, Num(75), Num(100)},
      spx_ret_1w_z  |-> {Null, Num(100)} ]

LabelFeatures == DOMAIN FeatureValues

Rows(fv) ==
    { [ spx_ret_3w_z |-> r, vix_z |-> v, pmi_z |-> g, breakeven10_z |-> i,
        vvix_z |-> vv, rv_3w_z |-> rv, ip_yoy_z |-> ip, unemp_z |-> un,
        cpi_yoy_z |-> cpi, spx_ret_1w_z |-> o ] :
        r \in fv.spx_ret_3w_z, v \in fv.vix_z,
        g \in fv.pmi_z, i \in fv.breakeven10_z,
        vv \in fv.vvix_z, rv \in fv.rv_3w_z,
        ip \in fv.ip_yoy_z, un \in fv.unemp_z,
        cpi \in fv.cpi_yoy_z, o \in fv.spx_ret_1w_z }

R_z(row) == Coalesce(row.spx_ret_3w_z, 0)
V_z(row) == Coalesce(row.vix_z, 0)
G_z(row) == Coalesce(row.pmi_z, 0)
I_z(row) == Coalesce(row.breakeven10_z, 0)
vol_stress(row) == Coalesce(row.vvix_z, 0) + Coalesce(row.rv_3w_z, 0)
growth_momentum(row) == Coalesce(row.ip_yoy_z, 0) - Coalesce(row.unemp_z, 0)

\* Mutant of fallbackRegime: the final else is missing, regime stays unassigned (-1).
fallbackRegimeNoElse(row) ==
    IF R_z(row) > 0 /\ V_z(row) < 0 /\ growth_momentum(row) > 0 THEN 0
    ELSE IF R_z(row) < 0 /\ V_z(row) > 0 THEN 1
    ELSE IF I_z(row) > 50 \/ Coalesce(row.cpi_yoy_z, 0) > 75 THEN 2
    ELSE -1

\* The "Fallback logic" block, page.tsx 209-214.
fallbackRegime(row) ==
    IF R_z(row) > 0 /\ V_z(row) < 0 /\ growth_momentum(row) > 0 THEN 0
    ELSE IF R_z(row) < 0 /\ V_z(row) > 0 THEN 1
    ELSE IF I_z(row) > 50 \/ Coalesce(row.cpi_yoy_z, 0) > 75 THEN 2
    ELSE 3

\* Mutant of regimeOf: the Slowdown test is made before the Stagflation test.
regimeOfSlowdownFirst(row) ==
    IF R_z(row) <= -50 /\ G_z(row) <= 0 /\ V_z(row) >= 0 THEN 1
    ELSE IF G_z(row) <= 0 /\ I_z(row) >= 75 /\ V_z(row) >= 0 THEN 2
    ELSE IF R_z(row) >= 50 /\ V_z(row) <= -50 /\ vol_stress(row) < -30 THEN 3
    ELSE IF R_z(row) >= 50 /\ V_z(row) <= 0 /\ G_z(row) >= 0
            /\ I_z(row) >= -50 /\ I_z(row) <= 75 THEN 0
    ELSE fallbackRegime(row)

\* Mutant of regimeOf: the Overheating test reads vol_stress <= -0.3.
regimeOfStressInclusive(row) ==
    IF G_z(row) <= 0 /\ I_z(row) >= 75 /\ V_z(row) >= 0 THEN 2
    ELSE IF R_z(row) >= 50 /\ V_z(row) <= -50 /\ vol_stress(row) <= -30 THEN 3
    ELSE IF R_z(row) <= -50 /\ G_z(row) <= 0 /\ V_z(row) >= 0 THEN 1
    ELSE IF R_z(row) >= 50 /\ V_z(row) <= 0 /\ G_z(row) >= 0
            /\ I_z(row) >= -50 /\ I_z(row) <= 75 THEN 0
    ELSE fallbackRegime(row)

\* The if / else-if chain of the map callback, page.tsx 184-214: the regime of one row.
regimeOf(row) ==
    IF G_z(row) <= 0 /\ I_z(row) >= 75 /\ V_z(row) >= 0 THEN 2
    ELSE IF R_z(row) >= 50 /\ V_z(row) <= -50 /\ vol_stress(row) < -30 THEN 3
    ELSE IF R_z(row) <= -50 /\ G_z(row) <= 0 /\ V_z(row) >= 0 THEN 1
    ELSE IF R_z(row) >= 50 /\ V_z(row) <= 0 /\ G_z(row) >= 0
            /\ I_z(row) >= -50 /\ I_z(row) <= 75 THEN 0
    ELSE fallbackRegime(row)

\* { ...row, regime }
labelRow(row) ==
    [f \in (DOMAIN row) \cup {"regime"} |-> IF f = "regime" THEN regimeOf(row) ELSE row[f]]

labelRegimes(d) == [i \in DOMAIN d |-> labelRow(d[i])]

InitLabel ==
    /\ data \in {<<r>> : r \in Rows(FeatureValues)}
    /\ labeled = <<>>
    /\ trees = <<>> /\ sample = <<>> /\ probs = <<>> /\ calls = 0 /\ importance = <<>>
    /\ NoBacktestState

\* handleFileUpload's call labelRegimes(data)
Label ==
    /\ labeled = <<>>
    /\ labeled' = labelRegimes(data)
    /\ UNCHANGED <<data, forestVars, backtestVars, trainVars, alerted, treeVars, weekVars>>

NextLabel == Label

SpecLabel == InitLabel /\ [][NextLabel]_vars

-----------------------------------------------------------------------------
(* Exact rationals <<n, d>>, d > 0, in lowest terms *)

RECURSIVE GCD(_, _)
GCD(a, b) == IF b = 0 THEN a ELSE GCD(b, a % b)

Abs(x) == IF x < 0 THEN -x ELSE x

Rat(n, d) ==
    LET g == GCD(Abs(n), Abs(d))
        sgn == IF d < 0 THEN -1 ELSE 1
    IN  IF n = 0 THEN <<0, 1>> ELSE <<sgn * (n \div g), sgn * (d \div g)>>

RAdd(x, y) == Rat(x[1] * y[2] + y[1] * x[2], x[2] * y[2])
RMul(x, y) ==
    LET a == Rat(x[1], y[2])
        b == Rat(y[1], x[2])
    IN  Rat(a[1] * b[1], a[2] * b[2])
RDiv(x, y) == RMul(x, <<y[2], y[1]>>)

RECURSIVE RSum(_)
RSum(seq) == IF seq = <<>> THEN <<0, 1>> ELSE RAdd(Head(seq), RSum(Tail(seq)))

-----------------------------------------------------------------------------
(* ForestPredictor and FeatureImportanceScorer: page.tsx 323-362 *)

Classes == {0, 1, 2, 3}

\* A parsed cell that is neither null nor a number (parseCSV keeps the raw string).
NaN == <<0, 0>>
isNaN(v) == Len(v) = 2

\* Bounds: the nodes (internal and leaf) of all trees of a forest together, for
\* the predictor and for the importance scorer, and the repeated predictRF calls.
MaxNodes == 5
MaxImportanceNodes == 9
MaxCalls == 2

\* The features passed to trainRandomForest and calcImportance (a selection of
\* expectedFeatures, in its order).
forestFeatures == <<"vix_z", "pmi_z", "cpi_yoy_z">>

\* The splits <<feature, threshold>> (hundredths) an internal node may carry.
Splits(features) == {<<features[i], 0>> : i \in DOMAIN features}

\* The trees trainDecisionTree returns, by number k of internal nodes, over the
\* splits S and the leaf classes C:
\* a leaf { leaf: true, prediction } or
\* an internal node { leaf: false, feature, threshold, left, right }.
RECURSIVE TreesK(_, _, _)
TreesK(k, S, C) ==
    IF k = 0 THEN {[leaf |-> TRUE, prediction |-> c] : c \in C}
    ELSE UNION { { [leaf |-> FALSE, feature |-> sp[1], threshold |-> sp[2],
                    left |-> l, right |-> r] :
                   sp \in S, l \in TreesK(j, S, C), r \in TreesK(k - 1 - j, S, C) } :
                 j \in 0..(k - 1) }

\* The forests (at least one tree) whose trees have at most m nodes together;
\* a tree with k internal nodes has 2k+1 nodes.
RECURSIVE ForestsUpTo(_, _, _)
ForestsUpTo(m, S, C) ==
    UNION { { <<t>> \o f : t \in TreesK(k, S, C),
                           f \in {<<>>} \cup ForestsUpTo(m - (2 * k + 1), S, C) } :
            k \in {j \in 0..m : 2 * j + 1 <= m} }

Samples ==
    { [vix_z |-> a, pmi_z |-> b, cpi_yoy_z |-> c] :
        a \in {Null, NaN, Num(-100), Num(100)},
        b \in {Null, Num(-100), Num(100)},
        c \in {Null} }

\* Mutant of predictionOrZero: the "?? 0" is missing, the vote goes to no class.
predictionOrUndefined(tree) == IF "prediction" \in DOMAIN tree THEN tree.prediction ELSE -1

\* tree.prediction ?? 0 at an internal node: trainDecisionTree stores no
\* prediction on an internal node, so the field is read only if present.
predictionOrZero(tree) == IF "prediction" \in DOMAIN tree THEN tree.prediction ELSE 0

RECURSIVE predictTree(_, _)
predictTree(tree, s) ==
    IF tree.leaf THEN tree.prediction
    ELSE LET val == s[tree.feature]
         IN  IF val = Null \/ isNaN(val) THEN predictionOrZero(tree)
             ELSE IF val[1] <= tree.threshold THEN predictTree(tree.left, s)
             ELSE predictTree(tree.right, s)

\* probs[cls]++ for every tree, then p / trees.length
predictRF(ts, s) ==
    LET votes == [c \in Classes |-> Cardinality({i \in DOMAIN ts : predictTree(ts[i], s) = c})]
    IN  [c \in Classes |-> Rat(votes[c], Len(ts))]

\* traverse(tree, depth): the 1/(depth+1) increments a tree adds to feature f.
RECURSIVE traverse(_, _, _)
traverse(tree, depth, f) ==
    IF tree.leaf THEN <<0, 1>>
    ELSE RAdd(IF tree.feature = f THEN <<1, depth + 1>> ELSE <<0, 1>>,
              RAdd(traverse(tree.left, depth + 1, f), traverse(tree.right, depth + 1, f)))

\* Mutant of toFixed1: the value is cut to one decimal instead of rounded.
toFixed1Truncating(x) == (10 * x[1]) \div x[2]

\* parseFloat(x.toFixed(1)) of x >= 0, in tenths: the nearest tenth, halves up.
toFixed1(x) == (20 * x[1] + x[2]) \div (2 * x[2])

\* Stable sort by descending importance.
RECURSIVE insertDesc(_, _)
insertDesc(e, seq) ==
    IF seq = <<>> THEN <<e>>
    ELSE IF Head(seq).importance >= e.importance THEN <<Head(seq)>> \o insertDesc(e, Tail(seq))
    ELSE <<e>> \o seq

RECURSIVE sortDesc(_)
sortDesc(seq) ==
    IF seq = <<>> THEN <<>>
    ELSE insertDesc(seq[Len(seq)], sortDesc(SubSeq(seq, 1, Len(seq) - 1)))

calcImportance(ts, features) ==
    LET imp == [i \in DOMAIN features |->
                   RSum([t \in DOMAIN ts |-> traverse(ts[t], 0, features[i])])]
        sum == RSum(imp)
        total == IF sum[1] = 0 THEN <<1, 1>> ELSE sum
    IN  sortDesc([i \in DOMAIN features |->
                    [feature |-> features[i],
                     importance |-> toFixed1(RMul(RDiv(imp[i], total), <<100, 1>>))]])

\* The forest handleTrain got from trainRandomForest, and one of its rows.
InitPredict ==
    /\ data = <<>> /\ labeled = <<>>
    /\ trees \in ForestsUpTo(MaxNodes, Splits(SubSeq(forestFeatures, 1, 2)), Classes)
    /\ sample \in Samples
    /\ probs = <<>> /\ calls = 0
    /\ importance = <<>>
    /\ NoBacktestState

\* Mutant of PredictRF: predictTree stores the class it returns on the root it started from.
PredictRFCaching ==
    /\ calls < MaxCalls
    /\ probs' = predictRF(trees, sample)
    /\ calls' = calls + 1
    /\ trees' = [i \in DOMAIN trees |->
                   [f \in (DOMAIN trees[i]) \cup {"prediction"} |->
                       IF f = "prediction" THEN predictTree(trees[i], sample)
                       ELSE trees[i][f]]]
    /\ UNCHANGED <<sample, importance, labelVars, backtestVars, trainVars, alerted, treeVars, weekVars>>

\* const probs = predictRF(trees, s), as handleTrain calls it on a row
PredictRF ==
    /\ calls < MaxCalls
    /\ probs' = predictRF(trees, sample)
    /\ calls' = calls + 1
    /\ UNCHANGED <<trees, sample, importance, labelVars, backtestVars, trainVars, alerted, treeVars, weekVars>>

NextPredict == PredictRF

SpecPredict == InitPredict /\ [][NextPredict]_vars

\* A forest over all of forestFeatures; leaf classes do not enter calcImportance.
InitImportance ==
    /\ data = <<>> /\ labeled = <<>>
    /\ trees \in ForestsUpTo(MaxImportanceNodes, Splits(forestFeatures), {0})
    /\ sample = <<>> /\ probs = <<>> /\ calls = 0
    /\ importance = <<>>
    /\ NoBacktestState

\* const importance = calcImportance(trees, expectedFeatures)
CalcImportance ==
    /\ importance = <<>>
    /\ importance' = calcImportance(trees, forestFeatures)
    /\ UNCHANGED <<trees, sample, probs, calls, labelVars, backtestVars, trainVars, alerted, treeVars, weekVars>>

NextImportance == CalcImportance

SpecImportance == InitImportance /\ [][NextImportance]_vars

-----------------------------------------------------------------------------
(* BacktestEngine: runBacktest, page.tsx 617-889 *)

\* A number that may be Infinity: <<v>> is the finite v; isFinite is applied to
\* non-null values only.
isFinite(v) == Len(v) = 1

\* Date keys are normDate's "YYYY-MM-DD" strings, held as <<year, month, day>>.
\* String order, as Array.prototype.sort() compares keys.
KeyLess(a, b) ==
    \/ a[1] < b[1]
    \/ a[1] = b[1] /\ a[2] < b[2]
    \/ a[1] = b[1] /\ a[2] = b[2] /\ a[3] < b[3]

\* new Date(key).getTime(), counted in days of a 12 x 31 calendar grid.
getTime(k) == (k[1] * 12 + (k[2] - 1)) * 31 + (k[3] - 1)

\* Mutant of cutoff: the backtest starts a year earlier.
cutoffEarlier == <<2014, 1, 1>>

\* new Date("2015-01-01")
cutoff == <<2015, 1, 1>>
initialCapital == 1000000
TopN == 5

regimeSectorConfig ==
    [r \in 0..3 |->
        CASE r = 0 -> [long  |-> <<"XLY US Equity", "XLK US Equity", "XLF US Equity">>,
                       short |-> <<"XLU US Equity", "XLP US Equity">>]
          [] r = 1 -> [long  |-> <<"XLP US Equity", "XLU US Equity", "XLV US Equity">>,
                       short |-> <<"XLY US Equity", "XLF US Equity", "XLI US Equity">>]
          [] r = 2 -> [long  |-> <<"XLE US Equity", "XLB US Equity">>,
                       short |-> <<"XLF US Equity", "XLK US Equity", "XLY US Equity">>]
          [] r = 3 -> [long  |-> <<"XLF US Equity", "XLI US Equity", "XLV US Equity">>,
                       short |-> <<"XLU US Equity", "XLP US Equity">>]]

RECURSIVE Concat(_)
Concat(ss) == IF ss = <<>> THEN <<>> ELSE Head(ss) \o Concat(Tail(ss))

\* Object.keys of a map filled row by row: the distinct keys in insertion order.
RECURSIVE objectKeys(_)
objectKeys(rows) ==
    IF rows = <<>> THEN <<>>
    ELSE LET rest == objectKeys(SubSeq(rows, 1, Len(rows) - 1))
             k == rows[Len(rows)]._dateKey
         IN  IF \E j \in DOMAIN rest : rest[j] = k THEN rest ELSE Append(rest, k)

RECURSIVE insertKey(_, _)
insertKey(k, seq) ==
    IF seq = <<>> THEN <<k>>
    ELSE IF KeyLess(k, Head(seq)) THEN <<k>> \o seq
    ELSE <<Head(seq)>> \o insertKey(k, Tail(seq))

\* Mutant of sortKeys: the keys stay in insertion order.
RECURSIVE unsortedKeys(_)
unsortedKeys(seq) == IF seq = <<>> THEN <<>> ELSE <<Head(seq)>> \o unsortedKeys(Tail(seq))

\* keys.sort()
RECURSIVE sortKeys(_)
sortKeys(seq) == IF seq = <<>> THEN <<>> ELSE insertKey(Head(seq), sortKeys(Tail(seq)))

lastIndex(rows, k) ==
    CHOOSE i \in DOMAIN rows :
        rows[i]._dateKey = k /\ \A j \in DOMAIN rows : rows[j]._dateKey = k => j <= i

\* 1) Date -> regime
regimeByDate(pd) ==
    [k \in {pd[i]._dateKey : i \in DOMAIN pd} |-> pd[lastIndex(pd, k)].regime]

\* 2) Date -> sector returns
sectorByDate(sd) ==
    [k \in {sd[i]._dateKey : i \in DOMAIN sd} |-> sd[lastIndex(sd, k)].returns]

\* 3) Date -> stock rows
stocksByDate(st) ==
    [k \in {st[i]._dateKey : i \in DOMAIN st} |-> SelectSeq(st, LAMBDA r : r._dateKey = k)]

\* date -> ticker -> return
stockRetByDate(sbd) ==
    [d \in DOMAIN sbd |->
        LET rows == SelectSeq(sbd[d], LAMBDA r : r.stock_ticker # "" /\ isFinite(r.ret))
        IN  [t \in {rows[i].stock_ticker : i \in DOMAIN rows} |->
                rows[CHOOSE i \in DOMAIN rows :
                        rows[i].stock_ticker = t
                        /\ \A j \in DOMAIN rows : rows[j].stock_ticker = t => j <= i].ret]]

\* Common dates
allDates(pd, sd, st) ==
    sortKeys(SelectSeq(objectKeys(pd),
                       LAMBDA d : d \in DOMAIN sectorByDate(sd) /\ d \in DOMAIN stocksByDate(st)))

\* Stable insertion of row e into rows sorted by ret, descending or ascending.
RECURSIVE insertByRet(_, _, _)
insertByRet(e, seq, desc) ==
    IF seq = <<>> THEN <<e>>
    ELSE IF (IF desc THEN Head(seq).ret[1] >= e.ret[1] ELSE Head(seq).ret[1] <= e.ret[1])
         THEN <<Head(seq)>> \o insertByRet(e, Tail(seq), desc)
         ELSE <<e>> \o seq

\* rows.sort((a, b) => b.ret - a.ret) when desc, (a, b) => a.ret - b.ret otherwise
RECURSIVE sortByRet(_, _)
sortByRet(seq, desc) ==
    IF seq = <<>> THEN <<>>
    ELSE insertByRet(seq[Len(seq)], sortByRet(SubSeq(seq, 1, Len(seq) - 1), desc), desc)

\* Mutant of slice: at most 2 elements are kept.
sliceTwo(seq, n) == SubSeq(seq, 1, IF Len(seq) < 2 THEN Len(seq) ELSE 2)

\* seq.slice(0, n)
slice(seq, n) == SubSeq(seq, 1, IF Len(seq) < n THEN Len(seq) ELSE n)

\* Mutant of candidates: the stocks without a return today are dropped before
\* the first TopN are taken, so the next-ranked stock takes their place.
RECURSIVE candidatesRefilled(_, _, _, _)
candidatesRefilled(sectors, rankStocks, todayRets, desc) ==
    IF sectors = <<>> THEN <<>>
    ELSE LET sector == Head(sectors)
             sorted == sortByRet(SelectSeq(rankStocks,
                           LAMBDA r : r.sector_etf = sector /\ isFinite(r.ret)), desc)
             kept == slice(SelectSeq(sorted,
                               LAMBDA r : r.stock_ticker \in DOMAIN todayRets
                                          /\ isFinite(todayRets[r.stock_ticker])), TopN)
         IN  [j \in DOMAIN kept |->
                 [ticker |-> kept[j].stock_ticker, sector_etf |-> kept[j].sector_etf,
                  stockRet |-> todayRets[kept[j].stock_ticker]]]
             \o candidatesRefilled(Tail(sectors), rankStocks, todayRets, desc)

\* The candidates of one book: for each configured sector in turn, the TopN
\* rank-date rows of the sector, kept when the stock has a return today.
RECURSIVE candidates(_, _, _, _)
candidates(sectors, rankStocks, todayRets, desc) ==
    IF sectors = <<>> THEN <<>>
    ELSE LET sector == Head(sectors)
             sorted == slice(sortByRet(SelectSeq(rankStocks,
                                 LAMBDA r : r.sector_etf = sector /\ isFinite(r.ret)), desc), TopN)
             kept == SelectSeq(sorted,
                         LAMBDA r : r.stock_ticker \in DOMAIN todayRets
                                    /\ isFinite(todayRets[r.stock_ticker]))
         IN  [j \in DOMAIN kept |->
                 [ticker |-> kept[j].stock_ticker, sector_etf |-> kept[j].sector_etf,
                  stockRet |-> todayRets[kept[j].stock_ticker]]]
             \o candidates(Tail(sectors), rankStocks, todayRets, desc)

\* Mutant of bookWeight: the whole book is sized 0.5 / (n + 1).
bookWeightOffByOne(n) == IF n > 0 THEN Rat(1, 2 * (n + 1)) ELSE <<0, 1>>

\* longWeight = nL > 0 ? 0.5 / nL : 0, and shortWeight likewise
bookWeight(n) == IF n > 0 THEN Rat(1, 2 * n) ELSE <<0, 1>>

\* { ...c, weight, pnl } with pnl = weight * c.stockRet (stockRet is in percent)
positions(cands, weight) ==
    [j \in DOMAIN cands |->
        [ticker |-> cands[j].ticker, sector_etf |-> cands[j].sector_etf,
         stockRet |-> cands[j].stockRet, weight |-> weight,
         pnl |-> RMul(weight, Rat(cands[j].stockRet[1], 100))]]

\* Mutant of weeklyRetOf: the short book's pnl is not added.
weeklyRetLongOnly(longs, shorts) == RSum([j \in DOMAIN longs |-> longs[j].pnl])

\* weeklyRet += pnl over the long, then the short positions
weeklyRetOf(longs, shorts) ==
    RAdd(RSum([j \in DOMAIN longs |-> longs[j].pnl]),
         RSum([j \in DOMAIN shorts |-> shorts[j].pnl]))

\* Mutant of compound: the return is applied to the initial capital.
compoundSimple(equity, weeklyRet) == RAdd(equity, RMul(<<initialCapital, 1>>, weeklyRet))

\* equity *= 1 + weeklyRet
compound(equity, weeklyRet) == RMul(equity, RAdd(<<1, 1>>, weeklyRet))

\* Mutant of zeroWeek: the week also gets a trade record, with empty books.
zeroWeekRecorded(st, tradeDate) ==
    [st EXCEPT !.weeklyReturns = Append(@, <<0, 1>>),
               !.equityCurve = Append(@, [date |-> tradeDate, equity |-> st.equity,
                                          ret |-> <<0, 1>>]),
               !.tradeKeys = Append(@, tradeDate),
               !.tradesByDate = (tradeDate :> [date |-> tradeDate, regime |-> 0,
                                               weeklyRet |-> <<0, 1>>,
                                               longs |-> <<>>, shorts |-> <<>>]) @@ @]

\* Mutant of zeroWeek: the week is skipped and nothing is recorded.
zeroWeekSkipped(st, tradeDate) == st

\* weeklyReturns.push(0); equityCurve.push({ date, equity, ret: 0 }); continue
zeroWeek(st, tradeDate) ==
    [st EXCEPT !.weeklyReturns = Append(@, <<0, 1>>),
               !.equityCurve = Append(@, [date |-> tradeDate, equity |-> st.equity,
                                          ret |-> <<0, 1>>])]

\* Mutant of rankDateOf: the stocks are ranked on the trade date itself.
rankDateSameWeek(dates, i) == dates[i]

\* const rankDate = allDates[i - 1] (dates is 1-based here)
rankDateOf(dates, i) == dates[i - 1]

\* One iteration of the for loop, for tradeDate = dates[i] and rankDate = dates[i-1]
\* (dates is 1-based here): the loop state after it.
weekStep(st, i, dates, rbd, sbd, srbd) ==
    LET tradeDate == dates[i]
        rankDate == rankDateOf(dates, i)
        regime == rbd[tradeDate]
    IN  IF getTime(tradeDate) < getTime(cutoff) THEN st
        ELSE IF regime \notin DOMAIN regimeSectorConfig THEN zeroWeek(st, tradeDate)
        ELSE
        LET config == regimeSectorConfig[regime]
            rankStocks == IF rankDate \in DOMAIN sbd THEN sbd[rankDate] ELSE <<>>
            todayRets == IF tradeDate \in DOMAIN srbd THEN srbd[tradeDate] ELSE <<>>
            longCandidates == candidates(config.long, rankStocks, todayRets, TRUE)
            shortCandidates == candidates(config.short, rankStocks, todayRets, FALSE)
            nL == Len(longCandidates)
            nS == Len(shortCandidates)
        IN  IF nL + nS = 0 THEN zeroWeek(st, tradeDate)
            ELSE
            LET longWeight == bookWeight(nL)
                shortWeight == bookWeight(nS)
                longPositions == positions(longCandidates, longWeight)
                shortPositions == positions(shortCandidates, <<-shortWeight[1], shortWeight[2]>>)
                weeklyRet == weeklyRetOf(longPositions, shortPositions)
                equity == compound(st.equity, weeklyRet)
            IN  [equity |-> equity,
                 weeklyReturns |-> Append(st.weeklyReturns, weeklyRet),
                 equityCurve |-> Append(st.equityCurve,
                                        [date |-> tradeDate, equity |-> equity, ret |-> weeklyRet]),
                 tradeKeys |-> Append(st.tradeKeys, tradeDate),
                 tradesByDate |-> (tradeDate :> [date |-> tradeDate, regime |-> regime,
                                                 weeklyRet |-> weeklyRet,
                                                 longs |-> longPositions,
                                                 shorts |-> shortPositions])
                                  @@ st.tradesByDate]

\* for (let i = 1; i < allDates.length; i++), from iteration i on
RECURSIVE loop(_, _, _, _, _, _)
loop(st, i, dates, rbd, sbd, srbd) ==
    IF i > Len(dates) THEN st
    ELSE loop(weekStep(st, i, dates, rbd, sbd, srbd), i + 1, dates, rbd, sbd, srbd)

\* The "Stats" block and the object handed to setBacktest, from the loop's
\* final state.  Of the statistics, cagr, volAnnual and sharpe (powers and
\* roots), maxDD and the yearly returns are not carried.
resultOf(st) ==
    LET n == Len(st.weeklyReturns)
    IN  [equityCurve |-> st.equityCurve,
         stats |-> [startDate |-> st.equityCurve[1].date,
                    endDate |-> st.equityCurve[Len(st.equityCurve)].date,
                    finalValue |-> st.equity,
                    winRate |-> Rat(Cardinality({j \in 1..n : st.weeklyReturns[j][1] > 0}),
                                    IF n = 0 THEN 1 ELSE n)],
         tradesByDate |-> st.tradesByDate,
         tradeDates |-> sortKeys(st.tradeKeys)]

\* The loop's final state, given the common dates and the stock rows by date.
loopResult(dates, rbd, sbd) ==
    loop([equity |-> <<initialCapital, 1>>, weeklyReturns |-> <<>>,
          equityCurve |-> <<>>, tradeKeys |-> <<>>, tradesByDate |-> <<>>],
         2, dates, rbd, sbd, stockRetByDate(sbd))

afterLoop(st) == IF Len(st.equityCurve) = 0 THEN Null ELSE Num(resultOf(st))

afterDates(dates, pd, sk) ==
    IF Len(dates) < 2 THEN Null
    ELSE afterLoop(loopResult(dates, regimeByDate(pd), stocksByDate(sk)))

\* The value runBacktest hands to setBacktest: null, or <<result>>.
backtestResult(pd, sd, sk) == afterDates(allDates(pd, sd, sk), pd, sk)

-----------------------------------------------------------------------------
(* Inputs of the backtest *)

\* Bound: the calendar dates that occur in the three uploaded tables.
MaxDates == 4

DateList ==
    << <<2014, 12, 18>>, <<2014, 12, 25>>, <<2015, 1, 1>>, <<2015, 1, 8>>,
       <<2015, 1, 15>>, <<2015, 1, 22>> >>

StockSector ==
    [AAPL |-> "XLK US Equity", MSFT |-> "XLK US Equity", NVDA |-> "XLK US Equity",
     DUK |-> "XLU US Equity", XOM |-> "XLE US Equity", AMT |-> "IYR US Equity"]

\* Cross-sections of one date: <<ticker, weekly return in percent>>.
csAll == << <<"AAPL", 3>>, <<"MSFT", 2>>, <<"NVDA", 1>>, <<"DUK", -1>>, <<"XOM", 4>> >>
csSome == << <<"MSFT", -2>>, <<"AAPL", 5>> >>
csOff == << <<"AMT", 7>> >>

\* What the tables hold for one date: the date's regime and its stock rows.
DayOptions ==
    { [regime |-> 0, stocks |-> csAll], [regime |-> 0, stocks |-> csSome],
      [regime |-> 2, stocks |-> csAll], [regime |-> 0, stocks |-> csOff] }

DefaultDay == [regime |-> 0, stocks |-> csAll]

\* The files: "macro", "sector", "stock".  The dates in `gap` are missing from
\* the file `hole`; every other file has every date.  `order` lists the dates
\* in the order the files do.
macroRows(days, order, gap, hole) ==
    Concat([j \in DOMAIN order |->
        IF hole = "macro" /\ order[j] \in gap THEN <<>>
        ELSE << [_dateKey |-> DateList[order[j]], regime |-> days[order[j]].regime] >>])

sectorRows(days, order, gap, hole) ==
    Concat([j \in DOMAIN order |->
        IF hole = "sector" /\ order[j] \in gap THEN <<>>
        ELSE << [_dateKey |-> DateList[order[j]], returns |-> <<>>] >>])

stockRows(days, order, gap, hole) ==
    Concat([j \in DOMAIN order |->
        IF hole = "stock" /\ order[j] \in gap THEN <<>>
        ELSE [x \in DOMAIN days[order[j]].stocks |->
                [_dateKey |-> DateList[order[j]],
                 stock_ticker |-> days[order[j]].stocks[x][1],
                 sector_etf |-> StockSector[days[order[j]].stocks[x][1]],
                 ret |-> Num(days[order[j]].stocks[x][2])]]])

\* The files list their dates in ascending or in descending order.
Orders == { [j \in 1..MaxDates |-> j], [j \in 1..MaxDates |-> MaxDates + 1 - j] }

\* The model and results a finished training run has stored: the Run Backtest
\* button is on the "backtest" tab, which is shown once results is set.
TrainedModel ==
    [trees |-> <<[leaf |-> TRUE, prediction |-> 0]>>,
     importance |-> <<>>, testPredictions |-> <<>>]

TrainedResults ==
    [predictions |-> <<[date |-> <<2015, 1, 8>>, actual |-> 0, predicted |-> 0]>>,
     accuracy |-> 1000]

\* The page after training and the three uploads, on the "backtest" tab,
\* before the first backtest.
InitBacktest ==
    /\ data = <<>> /\ labeled = <<>>
    /\ trees = <<>> /\ sample = <<>> /\ probs = <<>> /\ calls = 0 /\ importance = <<>>
    /\ dataStats = Num([dateColumn |-> Num("date")])
    /\ \E gap \in SUBSET (1..MaxDates), hole \in {"macro", "sector", "stock"},
          order \in Orders, days \in [1..MaxDates -> DayOptions] :
          /\ \A j \in gap : days[j] = DefaultDay
          /\ gap = {} => hole = "macro"
          /\ processedData = Num(macroRows(days, order, gap, hole))
          /\ sectorData = Num(sectorRows(days, order, gap, hole))
          /\ stockData = Num(stockRows(days, order, gap, hole))
    /\ backtest = Null /\ selectedTradeDate = "" /\ activeTab = "backtest"
    /\ step = "results" /\ model = Num(TrainedModel) /\ results = Num(TrainedResults)
    /\ timers = <<>> /\ timezone = 0 /\ alerted = ""
    /\ stack = <<>> /\ nodes = {} /\ predicted = Null
    /\ weekBooks = <<>> /\ weekIndex = 0 /\ weekEquity = Null /\ weekCurve = <<>>
    /\ weekLocals = Null

\* The alert a run raises: allDates.length < 2 (667-671), equityCurve.length
\* === 0 (821-825), or none.
alertOf(pd, sd, sk) ==
    IF Len(allDates(pd, sd, sk)) < 2
    THEN "Not enough overlapping dates between the 3 files."
    ELSE IF backtestResult(pd, sd, sk) = Null
         THEN "No valid weeks after applying 2015+ cutoff."
         ELSE ""

\* Mutant of RunBacktest: a run that fails returns without setBacktest(null).
RunBacktestKeepingResult ==
    /\ processedData # Null /\ dataStats # Null /\ dataStats[1].dateColumn # Null
    /\ sectorData # Null /\ stockData # Null
    /\ LET result == backtestResult(processedData[1], sectorData[1], stockData[1])
       IN  IF result = Null
           THEN UNCHANGED <<backtest, selectedTradeDate, activeTab>>
           ELSE /\ backtest' = result
                /\ selectedTradeDate' =
                     (IF result[1].tradeDates = <<>> THEN ""
                      ELSE result[1].tradeDates[Len(result[1].tradeDates)])
                /\ activeTab' = "backtest"
    /\ alerted' = alertOf(processedData[1], sectorData[1], stockData[1])
    /\ UNCHANGED <<inputVars, labelVars, forestVars, trainVars, treeVars, weekVars>>

\* Mutant of RunBacktest: the rows are ranked by sorting stockData in place.
RunBacktestSortingInPlace ==
    /\ processedData # Null /\ dataStats # Null /\ dataStats[1].dateColumn # Null
    /\ sectorData # Null /\ stockData # Null
    /\ LET result == backtestResult(processedData[1], sectorData[1], stockData[1])
       IN  /\ backtest' = result
           /\ IF result = Null
              THEN UNCHANGED <<selectedTradeDate, activeTab>>
              ELSE /\ selectedTradeDate' =
                        (IF result[1].tradeDates = <<>> THEN ""
                         ELSE result[1].tradeDates[Len(result[1].tradeDates)])
                   /\ activeTab' = "backtest"
    /\ alerted' = alertOf(processedData[1], sectorData[1], stockData[1])
    /\ stockData' = Num(sortByRet(stockData[1], TRUE))
    /\ UNCHANGED <<dataStats, processedData, sectorData, labelVars, forestVars, trainVars, treeVars, weekVars>>

\* Mutant of RunBacktest: the regime of a date is the
\* class the first tree of the trained forest predicts for the date's row.
RunBacktestWithForest ==
    /\ processedData # Null /\ dataStats # Null /\ dataStats[1].dateColumn # Null
    /\ sectorData # Null /\ stockData # Null
    /\ LET predictedRows ==
               [i \in DOMAIN processedData[1] |->
                   [processedData[1][i] EXCEPT
                       !.regime = predictTree(model[1].trees[1], processedData[1][i])]]
           result == backtestResult(predictedRows, sectorData[1], stockData[1])
       IN  /\ backtest' = result
           /\ IF result = Null
              THEN UNCHANGED <<selectedTradeDate, activeTab>>
              ELSE /\ selectedTradeDate' =
                        (IF result[1].tradeDates = <<>> THEN ""
                         ELSE result[1].tradeDates[Len(result[1].tradeDates)])
                   /\ activeTab' = "backtest"
    /\ alerted' = alertOf(processedData[1], sectorData[1], stockData[1])
    /\ UNCHANGED <<inputVars, labelVars, forestVars, trainVars, treeVars, weekVars>>

\* The Run Backtest button
RunBacktest ==
    /\ processedData # Null /\ dataStats # Null /\ dataStats[1].dateColumn # Null
    /\ sectorData # Null /\ stockData # Null
    /\ LET result == backtestResult(processedData[1], sectorData[1], stockData[1])
       IN  /\ backtest' = result
           /\ IF result = Null
              THEN UNCHANGED <<selectedTradeDate, activeTab>>
              ELSE /\ selectedTradeDate' =
                        (IF result[1].tradeDates = <<>> THEN ""
                         ELSE result[1].tradeDates[Len(result[1].tradeDates)])
                   /\ activeTab' = "backtest"
    /\ alerted' = alertOf(processedData[1], sectorData[1], stockData[1])
    /\ UNCHANGED <<inputVars, labelVars, forestVars, trainVars, treeVars, weekVars>>

NextBacktest == RunBacktest

SpecBacktest == InitBacktest /\ [][NextBacktest]_vars

-----------------------------------------------------------------------------
(* Re-uploads between backtests: page.tsx 545-613 and 617-889 *)

\* The sector and stock files a user uploads here hold the dates lo..hi of the
\* calendar (no date when hi < lo), every date with the default cross-section.
IntervalGaps == {(1..MaxDates) \ (lo..hi) : lo \in 1..MaxDates, hi \in 0..MaxDates}

AscendingOrder == [j \in 1..MaxDates |-> j]

AllDefault == [j \in 1..MaxDates |-> DefaultDay]

SectorFiles == {sectorRows(AllDefault, AscendingOrder, g, "sector") : g \in IntervalGaps}

StockFiles == {stockRows(AllDefault, AscendingOrder, g, "stock") : g \in IntervalGaps}

\* The page after a macro upload that holds every date, and a first upload of
\* the two other files.
InitRerun ==
    /\ data = <<>> /\ labeled = <<>>
    /\ trees = <<>> /\ sample = <<>> /\ probs = <<>> /\ calls = 0 /\ importance = <<>>
    /\ dataStats = Num([dateColumn |-> Num("date")])
    /\ processedData = Num(macroRows(AllDefault, AscendingOrder, {}, "macro"))
    /\ sectorData \in {Num(f) : f \in SectorFiles}
    /\ stockData \in {Num(f) : f \in StockFiles}
    /\ backtest = Null /\ selectedTradeDate = "" /\ activeTab = "backtest"
    /\ step = "results" /\ model = Num(TrainedModel) /\ results = Num(TrainedResults)
    /\ timers = <<>> /\ timezone = 0 /\ alerted = ""
    /\ stack = <<>> /\ nodes = {} /\ predicted = Null
    /\ weekBooks = <<>> /\ weekIndex = 0 /\ weekEquity = Null /\ weekCurve = <<>>
    /\ weekLocals = Null

\* handleSectorWeeklyUpload: setSectorData(rows)
handleSectorWeeklyUpload ==
    /\ \E f \in SectorFiles : sectorData' = Num(f)
    /\ UNCHANGED <<dataStats, processedData, stockData, backtest, selectedTradeDate,
                   activeTab, labelVars, forestVars, trainVars, alerted, treeVars, weekVars>>

\* handleStockReturnsUpload: setStockData(rows)
handleStockReturnsUpload ==
    /\ \E f \in StockFiles : stockData' = Num(f)
    /\ UNCHANGED <<dataStats, processedData, sectorData, backtest, selectedTradeDate,
                   activeTab, labelVars, forestVars, trainVars, alerted, treeVars, weekVars>>

NextRerun == handleSectorWeeklyUpload \/ handleStockReturnsUpload \/ RunBacktest

SpecRerun == InitRerun /\ [][NextRerun]_vars

-----------------------------------------------------------------------------
(* One week, one long sector: the specification's end-to-end scenario C *)

\* The weekly returns, in percent, a stock may have on the rank date and on
\* the trade date.
RankReturns == {1, 2, 3}
TradeReturns == {-2, 1, 5}

ScenarioTickers == <<"AAPL", "MSFT", "NVDA">>

\* The stock file: the three stocks of XLK on 2015-01-01 and on 2015-01-08.
scenarioStocks(rank, trade) ==
    [x \in 1..6 |->
        LET t == ScenarioTickers[((x - 1) % 3) + 1]
        IN  [_dateKey |-> IF x <= 3 THEN DateList[3] ELSE DateList[4],
             stock_ticker |-> t, sector_etf |-> StockSector[t],
             ret |-> Num(IF x <= 3 THEN rank[t] ELSE trade[t])]]

\* Goldilocks on both dates: of its long sectors only XLK has stocks in the
\* file, and its short sectors have none.
InitScenario ==
    /\ data = <<>> /\ labeled = <<>>
    /\ trees = <<>> /\ sample = <<>> /\ probs = <<>> /\ calls = 0 /\ importance = <<>>
    /\ dataStats = Num([dateColumn |-> Num("date")])
    /\ processedData = Num([j \in 1..2 |-> [_dateKey |-> DateList[j + 2], regime |-> 0]])
    /\ sectorData = Num([j \in 1..2 |-> [_dateKey |-> DateList[j + 2], returns |-> <<>>]])
    /\ \E rank \in [{"AAPL", "MSFT", "NVDA"} -> RankReturns],
          trade \in [{"AAPL", "MSFT", "NVDA"} -> TradeReturns] :
          stockData = Num(scenarioStocks(rank, trade))
    /\ backtest = Null /\ selectedTradeDate = "" /\ activeTab = "backtest"
    /\ step = "results" /\ model = Num(TrainedModel) /\ results = Num(TrainedResults)
    /\ timers = <<>> /\ timezone = 0 /\ alerted = ""
    /\ stack = <<>> /\ nodes = {} /\ predicted = Null
    /\ weekBooks = <<>> /\ weekIndex = 0 /\ weekEquity = Null /\ weekCurve = <<>>
    /\ weekLocals = Null

NextScenario == RunBacktest

SpecScenario == InitScenario /\ [][NextScenario]_vars

-----------------------------------------------------------------------------
(* Six stocks of one sector over one week: page.tsx 734-770 *)

SixTickers == <<"AAPL", "MSFT", "NVDA", "ORCL", "CSCO", "INTC">>

\* The rank-date returns, in percent, of the six stocks in the file's order:
\* all different, with ties around the fifth place, and all equal.
RankVectors == {<<6, 1, 5, 2, 4, 3>>, <<2, 3, 2, 1, 2, 2>>, <<1, 1, 1, 1, 1, 1>>}

\* A stock on the trade date: no row, a row whose return is Infinity, or a row
\* with a return in percent.
TradeCells == {"none", "Infinity", "4"}

\* The stock file: the six rows of 2015-01-01, then the rows of 2015-01-08.
sixStocks(sector, rank, trade) ==
    [x \in 1..6 |->
        [_dateKey |-> DateList[3], stock_ticker |-> SixTickers[x], sector_etf |-> sector,
         ret |-> Num(rank[x])]]
    \o Concat([x \in 1..6 |->
        IF trade[x] = "none" THEN <<>>
        ELSE << [_dateKey |-> DateList[4], stock_ticker |-> SixTickers[x],
                 sector_etf |-> sector,
                 ret |-> IF trade[x] = "Infinity" THEN NaN ELSE Num(x - 3)] >>])
    \o << [_dateKey |-> DateList[4], stock_ticker |-> "XOM", sector_etf |-> "XLE US Equity",
           ret |-> Num(4)] >>

\* Goldilocks on both dates; the six stocks are all of XLK, which it holds
\* long, or all of XLU, which it holds short.
InitSix ==
    /\ data = <<>> /\ labeled = <<>>
    /\ trees = <<>> /\ sample = <<>> /\ probs = <<>> /\ calls = 0 /\ importance = <<>>
    /\ dataStats = Num([dateColumn |-> Num("date")])
    /\ processedData = Num([j \in 1..2 |-> [_dateKey |-> DateList[j + 2], regime |-> 0]])
    /\ sectorData = Num([j \in 1..2 |-> [_dateKey |-> DateList[j + 2], returns |-> <<>>]])
    /\ \E sector \in {"XLK US Equity", "XLU US Equity"}, rank \in RankVectors,
          trade \in [1..6 -> TradeCells] :
          stockData = Num(sixStocks(sector, rank, trade))
    /\ backtest = Null /\ selectedTradeDate = "" /\ activeTab = "backtest"
    /\ step = "results" /\ model = Num(TrainedModel) /\ results = Num(TrainedResults)
    /\ timers = <<>> /\ timezone = 0 /\ alerted = ""
    /\ stack = <<>> /\ nodes = {} /\ predicted = Null
    /\ weekBooks = <<>> /\ weekIndex = 0 /\ weekEquity = Null /\ weekCurve = <<>>
    /\ weekLocals = Null

NextSix == RunBacktest

SpecSix == InitSix /\ [][NextSix]_vars

-----------------------------------------------------------------------------
(* Training: handleFileUpload, page.tsx 389-451, and handleTrain, 455-541 *)

\* A date cell of the macro file: "YYYY-MM-DD" as <<year, month, day>>, or a
\* cell that is no date.
BadDate == <<0, 0, 0>>

\* normDate: new Date(val).toISOString().slice(0, 10), null for an invalid date.
\* A "YYYY-MM-DD" cell is parsed as UTC midnight and printed in UTC.
normDate(cell) == IF cell = BadDate THEN Null ELSE Num(cell)

\* new Date(cell).getFullYear(): a "YYYY-MM-DD" cell is parsed as UTC midnight
\* and the year is read in local time, tz hours from UTC; west of UTC the local
\* day is the day before.  NaN for an invalid date.
getFullYear(cell, tz) ==
    IF cell = BadDate THEN NaN
    ELSE IF tz < 0 /\ cell[2] = 1 /\ cell[3] = 1 THEN Num(cell[1] - 1)
    ELSE Num(cell[1])

\* The offsets from UTC, in hours, of the browsers considered.
Timezones == {-5, 0, 1}

\* Two rows of features: every cell empty (labeled Overheating, 3), and a
\* Goldilocks row (labeled 0).
blankRow == [f \in LabelFeatures |-> Null]

calmRow ==
    [blankRow EXCEPT !.spx_ret_3w_z = Num(100), !.vix_z = Num(-25),
                     !.pmi_z = Num(100), !.breakeven10_z = Num(0)]

\* A parsed row: the feature cells and the date cell.
dated(row, cell) ==
    [f \in (DOMAIN row) \cup {"date"} |-> IF f = "date" THEN cell ELSE row[f]]

\* The macro files uploaded here, as parseCSV returns them: the date column
\* found in the headers (null when there is none), the number of expected
\* features missing from the headers, and the rows.
MacroFiles ==
    { [dateCol |-> Num("date"), missingFeatures |-> 0,
       data |-> << dated(blankRow, <<2004, 12, 31>>), dated(calmRow, <<2005, 1, 1>>),
                   dated(calmRow, <<2015, 12, 31>>), dated(blankRow, <<2016, 1, 1>>) >>],
      [dateCol |-> Num("date"), missingFeatures |-> 0,
       data |-> << dated(calmRow, <<2004, 6, 15>>), dated(blankRow, <<2016, 6, 15>>) >>],
      [dateCol |-> Num("date"), missingFeatures |-> 0,
       data |-> << dated(blankRow, <<2010, 6, 15>>), dated(calmRow, BadDate),
                   dated(calmRow, <<2020, 6, 15>>) >>],
      [dateCol |-> Null, missingFeatures |-> 0,
       data |-> << dated(calmRow, <<2010, 6, 15>>) >>],
      [dateCol |-> Num("date"), missingFeatures |-> 1,
       data |-> << dated(calmRow, <<2010, 6, 15>>) >>] }

\* labeled.map(row => key ? { ...row, _dateKey: key } : null).filter(Boolean)
withKey(rows) ==
    LET kept == SelectSeq(rows, LAMBDA r : normDate(r.date) # Null)
    IN  [i \in DOMAIN kept |->
            [f \in (DOMAIN kept[i]) \cup {"_dateKey"} |->
                IF f = "_dateKey" THEN normDate(kept[i].date)[1] ELSE kept[i][f]]]

\* The file input of step 1, which every step of the page shows.
handleFileUpload ==
    /\ \E file \in MacroFiles :
          /\ dataStats' = Num([dateColumn |-> file.dateCol])
          /\ IF file.dateCol = Null
             THEN step' = "error" /\ UNCHANGED processedData
             ELSE IF file.missingFeatures = 0
                  THEN /\ processedData' = Num(withKey(labelRegimes(file.data)))
                       /\ step' = "ready"
                  ELSE step' = "error" /\ UNCHANGED processedData
    /\ UNCHANGED <<model, results, timers, timezone, activeTab, sectorData, stockData,
                   backtest, selectedTradeDate, alerted, labelVars, forestVars, treeVars, weekVars>>

\* Bound: the setTimeout callbacks that may be pending at once.
MaxPending == 2

\* The Train button, shown in step "ready": setStep("training") and
\* setTimeout(callback, 400).  The callback keeps the processedData and the
\* dataStats of the render the click happened in.
handleTrain ==
    /\ step = "ready"
    /\ Len(timers) < MaxPending
    /\ processedData # Null /\ dataStats # Null /\ dataStats[1].dateColumn # Null
    /\ step' = "training"
    /\ timers' = Append(timers, [processedData |-> processedData[1]])
    /\ UNCHANGED <<model, results, timezone, activeTab, inputVars, backtest,
                   selectedTradeDate, alerted, labelVars, forestVars, treeVars, weekVars>>

\* year >= 2005 && year <= 2015
inTraining(row, tz) ==
    LET year == getFullYear(row.date, tz)
    IN  ~isNaN(year) /\ year[1] >= 2005 /\ year[1] <= 2015

\* year >= 2016
inTesting(row, tz) ==
    LET year == getFullYear(row.date, tz)
    IN  ~isNaN(year) /\ year[1] >= 2016

\* counts.indexOf(Math.max(...counts)) over the regimes of the rows
majority(rows) ==
    LET counts == [c \in Classes |-> Cardinality({i \in DOMAIN rows : rows[i].regime = c})]
    IN  CHOOSE c \in Classes :
            /\ \A e \in Classes : counts[e] <= counts[c]
            /\ \A e \in Classes : e < c => counts[e] < counts[c]

\* Bound: the trees of a trained forest (100 in handleTrain).
numTrees == 2

\* trainDecisionTree on fewer than 15 rows: a leaf that predicts the majority.
trainDecisionTree(rows) == [leaf |-> TRUE, prediction |-> majority(rows)]

\* The forests trainRandomForest may return for fewer than 15 rows: every tree
\* is trained on a bootstrap of the rows, drawn with replacement.
trainRandomForest(rows) ==
    LET n == Len(rows)
        leaves == {trainDecisionTree([i \in 1..n |-> rows[pick[i]]]) :
                      pick \in [1..n -> 1..n]}
    IN  [1..numTrees -> leaves]

\* probs.indexOf(Math.max(...probs))
argmax(p) ==
    CHOOSE c \in Classes :
        /\ \A e \in Classes : p[e][1] * p[c][2] <= p[c][1] * p[e][2]
        /\ \A e \in Classes : e < c => p[e][1] * p[c][2] < p[c][1] * p[e][2]

trainPreds(ts, rows) ==
    [i \in DOMAIN rows |->
        [date |-> rows[i].date, actual |-> rows[i].regime,
         predicted |-> argmax(predictRF(ts, rows[i])), probs |-> predictRF(ts, rows[i])]]

testPreds(ts, rows) ==
    [i \in DOMAIN rows |->
        [date |-> rows[i].date, predicted |-> argmax(predictRF(ts, rows[i])),
         p |-> [c \in Classes |-> toFixed1(RMul(predictRF(ts, rows[i])[c], <<100, 1>>))]]]

\* ((correct / trainPreds.length) * 100).toFixed(1), in tenths
trainAcc(preds) ==
    toFixed1(Rat(100 * Cardinality({i \in DOMAIN preds : preds[i].actual = preds[i].predicted}),
                 Len(preds)))

\* Mutant of TimeoutFires: a run without training rows also clears the model
\* and the results.
TimeoutFiresClearing ==
    /\ timers # <<>>
    /\ timers' = Tail(timers)
    /\ LET rows == Head(timers).processedData
           trainingData == SelectSeq(rows, LAMBDA r : inTraining(r, timezone))
           testingData == SelectSeq(rows, LAMBDA r : inTesting(r, timezone))
       IN  IF Len(trainingData) = 0
           THEN step' = "error" /\ model' = Null /\ results' = Null /\ UNCHANGED activeTab
           ELSE \E ts \in trainRandomForest(trainingData) :
                   /\ model' = Num([trees |-> ts,
                                    importance |-> calcImportance(ts, forestFeatures),
                                    testPredictions |-> testPreds(ts, testingData)])
                   /\ results' = Num([predictions |-> trainPreds(ts, trainingData),
                                      accuracy |-> trainAcc(trainPreds(ts, trainingData))])
                   /\ step' = "results"
                   /\ activeTab' = "overview"
    /\ UNCHANGED <<timezone, inputVars, backtest, selectedTradeDate, alerted,
                   labelVars, forestVars, treeVars, weekVars>>

\* Mutant of TimeoutFires: a run without training rows returns without
\* setStep("error").
TimeoutFiresSilent ==
    /\ timers # <<>>
    /\ timers' = Tail(timers)
    /\ LET rows == Head(timers).processedData
           trainingData == SelectSeq(rows, LAMBDA r : inTraining(r, timezone))
           testingData == SelectSeq(rows, LAMBDA r : inTesting(r, timezone))
       IN  IF Len(trainingData) = 0
           THEN UNCHANGED <<step, model, results, activeTab>>
           ELSE \E ts \in trainRandomForest(trainingData) :
                   /\ model' = Num([trees |-> ts,
                                    importance |-> calcImportance(ts, forestFeatures),
                                    testPredictions |-> testPreds(ts, testingData)])
                   /\ results' = Num([predictions |-> trainPreds(ts, trainingData),
                                      accuracy |-> trainAcc(trainPreds(ts, trainingData))])
                   /\ step' = "results"
                   /\ activeTab' = "overview"
    /\ UNCHANGED <<timezone, inputVars, backtest, selectedTradeDate, alerted,
                   labelVars, forestVars, treeVars, weekVars>>

\* The callback handleTrain handed to setTimeout runs.  Of the results, the
\* per-regime accuracy is not carried.
TimeoutFires ==
    /\ timers # <<>>
    /\ timers' = Tail(timers)
    /\ LET rows == Head(timers).processedData
           trainingData == SelectSeq(rows, LAMBDA r : inTraining(r, timezone))
           testingData == SelectSeq(rows, LAMBDA r : inTesting(r, timezone))
       IN  IF Len(trainingData) = 0
           THEN step' = "error" /\ UNCHANGED <<model, results, activeTab>>
           ELSE \E ts \in trainRandomForest(trainingData) :
                   /\ model' = Num([trees |-> ts,
                                    importance |-> calcImportance(ts, forestFeatures),
                                    testPredictions |-> testPreds(ts, testingData)])
                   /\ results' = Num([predictions |-> trainPreds(ts, trainingData),
                                      accuracy |-> trainAcc(trainPreds(ts, trainingData))])
                   /\ step' = "results"
                   /\ activeTab' = "overview"
    /\ UNCHANGED <<timezone, inputVars, backtest, selectedTradeDate, alerted,
                   labelVars, forestVars, treeVars, weekVars>>

\* The page as it loads, in a browser of one of the timezones.
InitTrain ==
    /\ data = <<>> /\ labeled = <<>>
    /\ trees = <<>> /\ sample = <<>> /\ probs = <<>> /\ calls = 0 /\ importance = <<>>
    /\ dataStats = Null /\ processedData = Null /\ sectorData = Null /\ stockData = Null
    /\ backtest = Null /\ selectedTradeDate = "" /\ activeTab = "overview"
    /\ step = "upload" /\ model = Null /\ results = Null /\ timers = <<>>
    /\ timezone \in Timezones /\ alerted = ""
    /\ stack = <<>> /\ nodes = {} /\ predicted = Null
    /\ weekBooks = <<>> /\ weekIndex = 0 /\ weekEquity = Null /\ weekCurve = <<>>
    /\ weekLocals = Null

NextTrain == handleFileUpload \/ handleTrain \/ TimeoutFires

SpecTrain == InitTrain /\ [][NextTrain]_vars

\* The oldest pending callback leaves the timer queue.
timerRuns == timers # <<>> /\ timers' = Tail(timers)

\* The browser runs a callback handed to setTimeout once its delay is over.
SpecTrainRun == SpecTrain /\ WF_timers(timerRuns)

-----------------------------------------------------------------------------
(* Backtests after different training runs: page.tsx 455-541 and 617-889 *)

\* The model and results of training runs that ended with different forests:
\* every tree of the forest is a leaf of class c.
forestOf(c) ==
    [trees |-> [t \in 1..numTrees |-> [leaf |-> TRUE, prediction |-> c]],
     importance |-> <<>>, testPredictions |-> <<>>]

resultsOf(c) ==
    [predictions |-> <<[date |-> <<2015, 1, 8>>, actual |-> 0, predicted |-> c]>>,
     accuracy |-> IF c = 0 THEN 1000 ELSE 0]

\* The page after one of the training runs and the three uploads, on the
\* "backtest" tab, before the first backtest.
InitForests ==
    /\ data = <<>> /\ labeled = <<>>
    /\ trees = <<>> /\ sample = <<>> /\ probs = <<>> /\ calls = 0 /\ importance = <<>>
    /\ dataStats = Num([dateColumn |-> Num("date")])
    /\ \E days \in [1..MaxDates -> DayOptions] :
          /\ processedData = Num(macroRows(days, AscendingOrder, {}, "macro"))
          /\ sectorData = Num(sectorRows(days, AscendingOrder, {}, "macro"))
          /\ stockData = Num(stockRows(days, AscendingOrder, {}, "macro"))
    /\ backtest = Null /\ selectedTradeDate = "" /\ activeTab = "backtest"
    /\ step = "results"
    /\ \E c \in Classes : model = Num(forestOf(c)) /\ results = Num(resultsOf(c))
    /\ timers = <<>> /\ timezone = 0 /\ alerted = ""
    /\ stack = <<>> /\ nodes = {} /\ predicted = Null
    /\ weekBooks = <<>> /\ weekIndex = 0 /\ weekEquity = Null /\ weekCurve = <<>>
    /\ weekLocals = Null

NextForests == RunBacktest

SpecForests == InitForests /\ [][NextForests]_vars

-----------------------------------------------------------------------------
(* Tree training: trainDecisionTree, page.tsx 230-304, one call per step *)

\* const expectedFeatures, page.tsx 56-78
expectedFeatures ==
    << "spx_ret_1w_z", "spx_ret_3w_z", "spx_ret_6w_z", "vix_z", "rv_3w_z", "vix_ts_z",
       "vvix_z", "hy_ret_3w_z", "slope_2s10s_z", "pmi_z", "pmi_chg_3w_z",
       "breakeven10_z", "breakeven_chg_3w_z", "cpi_yoy_z", "ip_yoy_z", "unemp_z",
       "aaii_spread_z", "cg_ratio_z", "oil_ret_3w_z", "gold_ret_3w_z",
       "capex_ret_6w_z" >>

\* Bound: how many of the expectedFeatures are handed to trainDecisionTree
\* (handleTrain hands over all 21).
MaxFeatures == 5

treeFeatures == SubSeq(expectedFeatures, 1, MaxFeatures)

\* trainRandomForest calls trainDecisionTree(bootstrap, features, target, 0, 12)
maxDepth == 12

\* data.length < 15 stops the splitting
minRows == 15

\* left.length < 5 || right.length < 5 rejects a candidate
minSide == 5

\* Math.floor(Math.sqrt(n))
floorSqrt(n) == CHOOSE k \in 0..n : k * k <= n /\ (k + 1) * (k + 1) > n

\* Mutant of numFeaturesOf: the square root is rounded up.
numFeaturesCeil(features) ==
    LET n == Len(features)
        c == CHOOSE k \in 0..n : k * k >= n /\ (k = 0 \/ (k - 1) * (k - 1) < n)
    IN  IF c < 1 THEN 1 ELSE c

\* const numFeatures = Math.max(1, Math.floor(Math.sqrt(features.length)))
numFeaturesOf(features) ==
    IF floorSqrt(Len(features)) < 1 THEN 1 ELSE floorSqrt(Len(features))

\* [...features].sort(() => 0.5 - Math.random()).slice(0, numFeatures): the
\* sort leaves the features in some order, the slice keeps the first ones.
Selections(features) ==
    LET k == numFeaturesOf(features)
        n == Len(features)
        m == IF k < n THEN k ELSE n
    IN  { [i \in 1..m |-> features[pick[i]]] :
            pick \in {q \in [1..m -> 1..n] : \A i, j \in 1..m : q[i] = q[j] => i = j} }

\* d[feature] != null && d[feature] <= threshold; a string cell compares false
cellLeq(v, threshold) == v # Null /\ ~isNaN(v) /\ v[1] <= threshold

\* d[feature] != null && d[feature] > threshold
cellGt(v, threshold) == v # Null /\ ~isNaN(v) /\ v[1] > threshold

leftOf(rows, feature, threshold) ==
    SelectSeq(rows, LAMBDA d : cellLeq(d[feature], threshold))

rightOf(rows, feature, threshold) ==
    SelectSeq(rows, LAMBDA d : cellGt(d[feature], threshold))

RECURSIVE insertAsc(_, _)
insertAsc(x, seq) ==
    IF seq = <<>> THEN <<x>>
    ELSE IF x < Head(seq) THEN <<x>> \o seq
    ELSE <<Head(seq)>> \o insertAsc(x, Tail(seq))

RECURSIVE sortAsc(_)
sortAsc(seq) ==
    IF seq = <<>> THEN <<>> ELSE insertAsc(Head(seq), sortAsc(Tail(seq)))

\* data.map(d => d[feature]).filter(v => v != null && !isNaN(v)).sort((a, b) => a - b)
valuesOf(rows, feature) ==
    LET kept == SelectSeq(rows, LAMBDA d : d[feature] # Null /\ ~isNaN(d[feature]))
    IN  sortAsc([i \in DOMAIN kept |-> kept[i][feature][1]])

\* values[Math.floor(values.length * pct)] for pct = quarter / 4
thresholdAt(values, quarter) == values[((Len(values) * quarter) \div 4) + 1]

\* calcGini, page.tsx 220-228: 1 minus the squared class shares; 1 for no rows
calcGini(rows) ==
    LET n == Len(rows)
        counts == [c \in Classes |-> Cardinality({i \in DOMAIN rows : rows[i].regime = c})]
        squares == counts[0] * counts[0] + counts[1] * counts[1]
                   + counts[2] * counts[2] + counts[3] * counts[3]
    IN  IF n = 0 THEN <<1, 1>> ELSE Rat(n * n - squares, n * n)

\* (left.length / data.length) * calcGini(left) + (right.length / data.length) * calcGini(right)
splitGini(rows, left, right) ==
    RAdd(RMul(Rat(Len(left), Len(rows)), calcGini(left)),
         RMul(Rat(Len(right), Len(rows)), calcGini(right)))

\* gini < bestGini; bestGini is Infinity (null here) until a candidate is kept
giniLess(gini, bestGini) ==
    bestGini = Null \/ gini[1] * bestGini[2] < bestGini[1] * gini[2]

\* One pass of the inner forEach: the candidate (feature, quarter) against the
\* best split so far.
tryCandidate(best, rows, feature, quarter) ==
    LET values == valuesOf(rows, feature)
    IN  IF Len(values) = 0 THEN best
        ELSE LET threshold == thresholdAt(values, quarter)
                 left == leftOf(rows, feature, threshold)
                 right == rightOf(rows, feature, threshold)
                 gini == splitGini(rows, left, right)
             IN  IF Len(left) < minSide \/ Len(right) < minSide THEN best
                 ELSE IF giniLess(gini, best.gini)
                      THEN [feature |-> feature, threshold |-> threshold, gini |-> gini]
                      ELSE best

\* selected.forEach(feature => [0.25, 0.5, 0.75].forEach(...)): the candidates
\* k, k+1, ... in the order the loops visit them.
RECURSIVE scanCandidates(_, _, _, _)
scanCandidates(best, rows, selected, k) ==
    IF k >= 3 * Len(selected) THEN best
    ELSE scanCandidates(tryCandidate(best, rows, selected[(k \div 3) + 1], (k % 3) + 1),
                        rows, selected, k + 1)

\* let bestFeature = selected[0]; let bestThreshold = 0; let bestGini = Infinity
bestSplit(rows, selected) ==
    scanCandidates([feature |-> selected[1], threshold |-> 0, gini |-> Null],
                   rows, selected, 0)

\* Mutant of stopHere: the depth test is off by one.
stopHereDeeper(depth, rows) == depth > maxDepth \/ Len(rows) < minRows

\* Mutant of stopHere: the row test is missing.
stopHereDepthOnly(depth, rows) == depth >= maxDepth

\* depth >= maxDepth || data.length < 15
stopHere(depth, rows) == depth >= maxDepth \/ Len(rows) < minRows

\* Mutant of indexOfMax: the last of the largest entries.
indexOfMaxLast(counts) ==
    LET max == CHOOSE m \in {counts[c] : c \in Classes} :
                   \A c \in Classes : counts[c] <= m
    IN  CHOOSE c \in Classes : counts[c] = max /\ \A e \in Classes : counts[e] = max => e <= c

\* counts.indexOf(Math.max(...counts))
indexOfMax(counts) ==
    LET max == CHOOSE m \in {counts[c] : c \in Classes} :
                   \A c \in Classes : counts[c] <= m
    IN  CHOOSE c \in Classes : counts[c] = max /\ \A e \in Classes : counts[e] = max => c <= e

\* const counts = [0, 0, 0, 0]; data.forEach(d => counts[d[target]]++)
countsOf(rows) ==
    [c \in Classes |-> Cardinality({i \in DOMAIN rows : rows[i].regime = c})]

\* What a call returns, with the rows and the depth it was called with and the
\* features it drew: { leaf: true, prediction }
leafNode(call, selected) ==
    [path |-> call.path, depth |-> call.depth, data |-> call.data,
     selected |-> selected, leaf |-> TRUE,
     prediction |-> Num(indexOfMax(countsOf(call.data))),
     feature |-> "", threshold |-> 0]

\* { leaf: false, feature, threshold, left, right }: no prediction is stored
splitNode(call, selected, best) ==
    [path |-> call.path, depth |-> call.depth, data |-> call.data,
     selected |-> selected, leaf |-> FALSE, prediction |-> Null,
     feature |-> best.feature, threshold |-> best.threshold]

\* The tree below the call at a path, as trainDecisionTree returns it.
RECURSIVE treeAt(_, _)
treeAt(ns, path) ==
    LET n == CHOOSE x \in ns : x.path = path
    IN  IF n.leaf THEN [leaf |-> TRUE, prediction |-> n.prediction[1]]
        ELSE [leaf |-> FALSE, feature |-> n.feature, threshold |-> n.threshold,
              left |-> treeAt(ns, Append(path, "left")),
              right |-> treeAt(ns, Append(path, "right"))]

\* One call of trainDecisionTree, the innermost one not yet run: the left
\* subtree is built before the right one.  When the outermost call returns,
\* trainRandomForest pushes the tree.
trainDecisionTreeCall ==
    /\ stack # <<>>
    /\ LET call == Head(stack)
       IN  IF stopHere(call.depth, call.data)
           THEN /\ nodes' = nodes \cup {leafNode(call, <<>>)}
                /\ stack' = Tail(stack)
           ELSE \E selected \in Selections(treeFeatures) :
                   LET best == bestSplit(call.data, selected)
                       left == leftOf(call.data, best.feature, best.threshold)
                       right == rightOf(call.data, best.feature, best.threshold)
                   IN  IF Len(left) = 0 \/ Len(right) = 0
                       THEN /\ nodes' = nodes \cup {leafNode(call, selected)}
                            /\ stack' = Tail(stack)
                       ELSE /\ nodes' = nodes \cup {splitNode(call, selected, best)}
                            /\ stack' = << [path |-> Append(call.path, "left"),
                                            data |-> left, depth |-> call.depth + 1],
                                           [path |-> Append(call.path, "right"),
                                            data |-> right, depth |-> call.depth + 1] >>
                                        \o Tail(stack)
    /\ trees' = IF stack' = <<>> THEN Append(trees, treeAt(nodes', <<>>)) ELSE trees
    /\ UNCHANGED <<sample, probs, calls, importance, labelVars, backtestVars, trainVars,
                   alerted, predicted, weekVars>>

\* A row of a training table: the first feature, the fourth feature and the
\* regime; every other feature cell is empty.
treeRow(a, d, c) ==
    [f \in {treeFeatures[i] : i \in DOMAIN treeFeatures} \cup {"regime"} |->
        IF f = "regime" THEN c
        ELSE IF f = treeFeatures[1] THEN a
        ELSE IF f = treeFeatures[4] THEN d
        ELSE Null]

block(n, row) == [i \in 1..n |-> row]

\* The regimes of the three blocks of a table.
BlockClasses == {<<2, 1, 3>>, <<0, 3, 1>>, <<1, 1, 2>>}

\* The tables (bootstraps) handed to trainDecisionTree: n1 rows low on the
\* first feature, n2 rows in the middle, n3 rows high with a string in the
\* fourth feature, and n4 rows with an empty first feature.
treeTable(n1, n2, n3, n4, cls) ==
    block(n1, treeRow(Num(-100), Num(50), cls[1]))
    \o block(n2, treeRow(Num(100), Num(-50), cls[2]))
    \o block(n3, treeRow(Num(300), NaN, cls[3]))
    \o block(n4, treeRow(Null, Num(50), 3))

\* The depth of the call: 0 for the call trainRandomForest makes, 11 and 12
\* for the calls deep inside the training of a large table.
StartDepths == {0, 11, 12}

\* The rows handleTrain hands to predictRF.
TreeSamples ==
    { treeRow(Null, Num(50), 0), treeRow(NaN, Null, 0), treeRow(Num(-100), Null, 0),
      treeRow(Num(300), Num(50), 0) }

\* The last pass of trainRandomForest's loop: the trees pushed before came
\* from bootstraps that drew the table's first row every time (leaves of its
\* regime), and trainDecisionTree is called on one more bootstrap.
InitTree ==
    /\ data = <<>> /\ labeled = <<>>
    /\ sample = <<>> /\ probs = <<>> /\ calls = 0 /\ importance = <<>>
    /\ dataStats = Null /\ processedData = Null /\ sectorData = Null /\ stockData = Null
    /\ backtest = Null /\ selectedTradeDate = "" /\ activeTab = "overview"
    /\ step = "training" /\ model = Null /\ results = Null /\ timers = <<>>
    /\ timezone = 0 /\ alerted = ""
    /\ nodes = {} /\ predicted = Null
    /\ weekBooks = <<>> /\ weekIndex = 0 /\ weekEquity = Null /\ weekCurve = <<>>
    /\ weekLocals = Null
    /\ \E n1 \in {2, 8, 13}, n2 \in {2, 8}, n3 \in {0, 10}, n4 \in {0, 3},
          cls \in BlockClasses, depth \in StartDepths :
          stack = << [path |-> <<>>, data |-> treeTable(n1, n2, n3, n4, cls),
                      depth |-> depth] >>
    /\ trees = [i \in 1..(numTrees - 1) |->
                   [leaf |-> TRUE, prediction |-> stack[1].data[1].regime]]

\* probs.indexOf(Math.max(...probs)): every entry is a count of votes over
\* the number of trees, so the largest entry is that of the largest count
reportedClass(p, n) == indexOfMax([c \in Classes |-> p[c][1] * (n \div p[c][2])])

\* const probs = predictRF(trees, s); const predicted = probs.indexOf(...) on a
\* row, once trainRandomForest has returned all its trees
predictBuilt ==
    /\ stack = <<>> /\ Len(trees) = numTrees
    /\ calls < MaxCalls
    /\ \E s \in TreeSamples :
          /\ sample' = s
          /\ probs' = predictRF(trees, s)
          /\ predicted' = Num(reportedClass(predictRF(trees, s), Len(trees)))
    /\ calls' = calls + 1
    /\ UNCHANGED <<trees, importance, labelVars, backtestVars, trainVars, alerted,
                   stack, nodes, weekVars>>

NextTree == trainDecisionTreeCall \/ predictBuilt

SpecTree == InitTree /\ [][NextTree]_vars

-----------------------------------------------------------------------------
(* JavaScript numbers: IEEE 754 binary64 with round-to-nearest, ties-to-even *)

\* A natural number of any size: its digits in base 2^14, the least
\* significant first, without a leading zero digit; <<>> is 0.
DigitBits == 14
Base == 2^DigitBits

limb(a, i) == IF i \in DOMAIN a THEN a[i] ELSE 0

\* a without its leading zero digits
NTrim(a) ==
    SubSeq(a, 1, CHOOSE k \in 0..Len(a) :
                     (k = 0 \/ a[k] # 0) /\ \A j \in (k + 1)..Len(a) : a[j] = 0)

\* The carry into place i when the columns c are brought to digits
RECURSIVE carryInto(_, _)
carryInto(c, i) == IF i = 1 THEN 0 ELSE (c[i - 1] + carryInto(c, i - 1)) \div Base

\* The natural number that is the sum of c[i] * Base^(i-1), the columns being
\* integers below 2^30 in size
normalize(c) ==
    LET cols == c \o <<0, 0, 0>>
    IN  NTrim([i \in DOMAIN cols |-> (cols[i] + carryInto(cols, i)) % Base])

NFromInt(n) == normalize(<<n % Base, (n \div Base) % Base, n \div (Base * Base)>>)

NAdd(a, b) ==
    IF a = <<>> THEN b
    ELSE IF b = <<>> THEN a
    ELSE normalize([i \in 1..(IF Len(a) > Len(b) THEN Len(a) ELSE Len(b)) |->
                       limb(a, i) + limb(b, i)])

\* a - b for a >= b
NSub(a, b) == IF b = <<>> THEN a ELSE normalize([i \in DOMAIN a |-> a[i] - limb(b, i)])

\* -1, 0 or 1 as a < b, a = b or a > b
NCmp(a, b) ==
    LET differ == {i \in (DOMAIN a) \cup (DOMAIN b) : limb(a, i) # limb(b, i)}
        top == CHOOSE i \in differ : \A j \in differ : j <= i
    IN  IF differ = {} THEN 0 ELSE IF limb(a, top) < limb(b, top) THEN -1 ELSE 1

\* a * k for 0 <= k <= Base
NMulSmall(a, k) == IF a = <<>> THEN <<>> ELSE normalize([i \in DOMAIN a |-> a[i] * k])

\* a * b for a and b below 2^56 (four digits)
NMul(a, b) ==
    IF a = <<>> \/ b = <<>> THEN <<>>
    ELSE normalize([i \in 1..8 |->
             limb(a, 1) * limb(b, i) + limb(a, 2) * limb(b, i - 1)
                 + limb(a, 3) * limb(b, i - 2) + limb(a, 4) * limb(b, i - 3)])

\* The remainder by k of the number the digits i, i+1, ... of a are, 0 < k <= Base
RECURSIVE remFrom(_, _, _)
remFrom(a, k, i) ==
    IF i > Len(a) THEN 0 ELSE (remFrom(a, k, i + 1) * Base + a[i]) % k

\* Quotient and remainder of a by k, for 0 < k <= Base
NDivSmall(a, k) ==
    IF a = <<>> THEN [q |-> <<>>, r |-> 0] ELSE
    [q |-> NTrim([i \in DOMAIN a |-> (remFrom(a, k, i + 1) * Base + a[i]) \div k]),
     r |-> remFrom(a, k, 1)]

\* a * 2^k
NShl(a, k) ==
    IF a = <<>> THEN <<>>
    ELSE [i \in 1..(k \div DigitBits) |-> 0] \o NMulSmall(a, 2^(k % DigitBits))

\* floor(a / 2^k)
NShr(a, k) ==
    LET n == k \div DigitBits
        s == k % DigitBits
    IN  IF n >= Len(a) THEN <<>>
        ELSE NTrim([i \in 1..(Len(a) - n) |->
                  (a[i + n] \div 2^s) + (limb(a, i + n + 1) % 2^s) * 2^(DigitBits - s)])

\* a modulo 2^k
NLow(a, k) ==
    LET n == k \div DigitBits
    IN  NTrim([i \in 1..(n + 1) |->
                  IF i <= n THEN limb(a, i) ELSE limb(a, i) % 2^(k % DigitBits)])

\* The number of binary digits of a
NBitLen(a) ==
    IF a = <<>> THEN 0
    ELSE DigitBits * (Len(a) - 1)
            + (CHOOSE n \in 1..DigitBits : 2^(n - 1) <= a[Len(a)] /\ a[Len(a)] < 2^n)

NOdd(a) == a # <<>> /\ a[1] % 2 = 1

\* A finite JavaScript number: (neg ? -1 : 1) * m * 2^e, with m a natural number
\* below 2^53, and m >= 2^52 unless e = -1074; zero has m = 0 and e = -1074.
\* Numbers beyond the largest finite one (overflow to Infinity) do not occur
\* for the values used here.
Precision == 53
MinExponent == -1074

\* The JavaScript number nearest to (neg ? -1 : 1) * M * 2^E, the one with the
\* even m when two are equally near.
roundToDouble(neg, M, E) ==
    IF M = <<>> THEN [neg |-> neg, m |-> <<>>, e |-> MinExponent]
    ELSE LET sh == IF E + NBitLen(M) - Precision < MinExponent
                   THEN MinExponent - E
                   ELSE NBitLen(M) - Precision
         IN  IF sh <= 0 THEN [neg |-> neg, m |-> NShl(M, -sh), e |-> E + sh]
             ELSE LET q == NShr(M, sh)
                      c == NCmp(NLow(M, sh), NShl(<<1>>, sh - 1))
                      up == c > 0 \/ (c = 0 /\ NOdd(q))
                      q1 == IF up THEN NAdd(q, <<1>>) ELSE q
                  IN  IF NBitLen(q1) > Precision
                      THEN [neg |-> neg, m |-> NShr(q1, 1), e |-> E + sh + 1]
                      ELSE [neg |-> neg, m |-> q1, e |-> E + sh]

\* The number an integer literal of the code denotes
fromInt(n) == roundToDouble(n < 0, NFromInt(IF n < 0 THEN -n ELSE n), 0)

\* x * y
fmul(x, y) ==
    IF x.m = <<>> \/ y.m = <<>> THEN [neg |-> x.neg # y.neg, m |-> <<>>, e |-> MinExponent]
    ELSE roundToDouble(x.neg # y.neg, NMul(x.m, y.m), x.e + y.e)

\* x + y
fadd(x, y) ==
    LET e == IF x.e < y.e THEN x.e ELSE y.e
        X == NShl(x.m, x.e - e)
        Y == NShl(y.m, y.e - e)
    IN  IF x.m = <<>> /\ y.m = <<>> THEN [x EXCEPT !.neg = x.neg /\ y.neg]
        ELSE IF x.m = <<>> THEN y
        ELSE IF y.m = <<>> THEN x
        ELSE IF x.neg = y.neg THEN roundToDouble(x.neg, NAdd(X, Y), e)
        ELSE IF NCmp(X, Y) = 0 THEN roundToDouble(FALSE, <<>>, e)
        ELSE IF NCmp(X, Y) > 0 THEN roundToDouble(x.neg, NSub(X, Y), e)
        ELSE roundToDouble(y.neg, NSub(Y, X), e)

\* -x
fneg(x) == [x EXCEPT !.neg = ~x.neg]

\* x / n for an integer 0 < n <= Base: the quotient is cut after 70 further
\* binary digits, and one more digit records whether anything was cut off.
fdivInt(x, n) ==
    LET d == NDivSmall(NShl(x.m, 70), n)
    IN  roundToDouble(x.neg, NAdd(NShl(d.q, 1), IF d.r = 0 THEN <<>> ELSE <<1>>), x.e - 71)

\* x < y
fless(x, y) ==
    LET e == IF x.e < y.e THEN x.e ELSE y.e
        c == NCmp(NShl(x.m, x.e - e), NShl(y.m, y.e - e))
    IN  IF x.m = <<>> THEN y.m # <<>> /\ ~y.neg
        ELSE IF y.m = <<>> THEN x.neg
        ELSE IF x.neg # y.neg THEN x.neg
        ELSE IF x.neg THEN c > 0 ELSE c < 0

\* Number(text) for a decimal text "[-]i.dddd...dddd" with the integer part i and
\* the decimals in groups of four digits: the number nearest to the text's
\* value.  The value is cut after 140 binary digits, and one more digit records
\* whether anything was cut off.
RECURSIVE NFromGroups(_, _, _)
NFromGroups(int, groups, n) ==
    IF n = 0 THEN NFromInt(int)
    ELSE NAdd(NMulSmall(NFromGroups(int, groups, n - 1), 10^4), NFromInt(groups[n]))

RECURSIVE divGroups(_, _, _)
divGroups(a, n, cut) ==
    IF n = 0 THEN NAdd(NShl(a, 1), IF cut THEN <<1>> ELSE <<>>)
    ELSE LET d == NDivSmall(a, 10^4)
         IN  IF d.r = 0 THEN divGroups(d.q, n - 1, cut) ELSE divGroups(d.q, n - 1, TRUE)

parseNumber(cell) ==
    roundToDouble(cell.neg,
                  divGroups(NShl(NFromGroups(cell.int, cell.groups, Len(cell.groups)), 140),
                            Len(cell.groups), FALSE),
                  -141)

-----------------------------------------------------------------------------
(* The backtest loop in JavaScript numbers: page.tsx 772-810 *)

\* The ret cells of the stock file used here, as the file spells them:
\* "0.9999999999999999", "0.99", "0.03", "0.02", "0.01" and "1".
cell9999 == [neg |-> FALSE, int |-> 0, groups |-> <<9999, 9999, 9999, 9999>>]
cell99 == [neg |-> FALSE, int |-> 0, groups |-> <<9900>>]
cell03 == [neg |-> FALSE, int |-> 0, groups |-> <<300>>]
cell02 == [neg |-> FALSE, int |-> 0, groups |-> <<200>>]
cell01 == [neg |-> FALSE, int |-> 0, groups |-> <<100>>]
cell1 == [neg |-> FALSE, int |-> 1, groups |-> <<>>]

\* The cell with a minus sign in front
minus(cell) == [cell EXCEPT !.neg = TRUE]

\* n candidates with the same trade-date return
repeat(n, cell) == [j \in 1..n |-> parseNumber(cell)]

\* The candidates of one trade date: the stockRet of the long and of the short
\* candidates, in the order they were pushed.  There are at most 5 per sector.
WeekOptions ==
    { [long |-> repeat(1, minus(cell9999)), short |-> repeat(10, cell9999)],
      [long |-> repeat(1, minus(cell9999)), short |-> repeat(9, cell9999)],
      [long |-> repeat(1, minus(cell99)), short |-> repeat(1, cell99)],
      [long |-> <<parseNumber(cell03), parseNumber(minus(cell01))>>,
       short |-> repeat(1, cell02)],
      [long |-> repeat(1, minus(cell1)), short |-> repeat(1, cell1)],
      [long |-> <<>>, short |-> <<>>] }

\* Bound: the trade dates the loop goes through.
MaxWeeks == 3

\* longWeight = nL > 0 ? 0.5 / nL : 0, and shortWeight likewise
weightOf(n) == IF n > 0 THEN fdivInt(fdivInt(fromInt(1), 2), n) ELSE fromInt(0)

\* runBacktest before the loop's first iteration: nothing pushed.
InitWeeks ==
    /\ data = <<>> /\ labeled = <<>>
    /\ trees = <<>> /\ sample = <<>> /\ probs = <<>> /\ calls = 0 /\ importance = <<>>
    /\ dataStats = Null /\ processedData = Null /\ sectorData = Null /\ stockData = Null
    /\ backtest = Null /\ selectedTradeDate = "" /\ activeTab = "backtest"
    /\ step = "results" /\ model = Num(TrainedModel) /\ results = Num(TrainedResults)
    /\ timers = <<>> /\ timezone = 0 /\ alerted = ""
    /\ stack = <<>> /\ nodes = {} /\ predicted = Null
    /\ \E n \in 1..MaxWeeks : weekBooks \in [1..n -> WeekOptions]
    /\ weekIndex = 0 /\ weekEquity = fromInt(initialCapital) /\ weekCurve = <<>>
    /\ weekLocals = Null

\* An iteration from the candidates to `let weeklyRet = 0` (772-784): a week
\* without candidates is pushed with return 0 and the loop continues.
weekStarts ==
    /\ weekLocals = Null
    /\ weekIndex < Len(weekBooks)
    /\ LET nL == Len(weekBooks[weekIndex + 1].long)
           nS == Len(weekBooks[weekIndex + 1].short)
       IN  IF nL + nS = 0
           THEN /\ weekCurve' = Append(weekCurve, [equity |-> weekEquity, ret |-> fromInt(0)])
                /\ weekIndex' = weekIndex + 1
                /\ UNCHANGED weekLocals
           ELSE /\ weekLocals' = Num([longWeight |-> weightOf(nL),
                                      shortWeight |-> weightOf(nS),
                                      weeklyRet |-> fromInt(0), positions |-> 0])
                /\ UNCHANGED <<weekCurve, weekIndex>>
    /\ UNCHANGED <<weekBooks, weekEquity, labelVars, forestVars, backtestVars, trainVars,
                   alerted, treeVars>>

\* The next candidate in longCandidates.map or shortCandidates.map (786-804):
\* pnl = weight * c.stockRet and weeklyRet += pnl, the weight of a short
\* position being -shortWeight.
positionAdded ==
    /\ weekLocals # Null
    /\ LET book == weekBooks[weekIndex + 1]
           l == weekLocals[1]
           nL == Len(book.long)
           pnl == IF l.positions < nL
                  THEN fmul(l.longWeight, book.long[l.positions + 1])
                  ELSE fmul(fneg(l.shortWeight), book.short[l.positions + 1 - nL])
       IN  /\ l.positions < nL + Len(book.short)
           /\ weekLocals' = Num([l EXCEPT !.weeklyRet = fadd(l.weeklyRet, pnl),
                                          !.positions = l.positions + 1])
    /\ UNCHANGED <<weekBooks, weekIndex, weekEquity, weekCurve, labelVars, forestVars,
                   backtestVars, trainVars, alerted, treeVars>>

\* The end of the iteration (806-809): equity *= 1 + weeklyRet and the pushes.
weekEnds ==
    /\ weekLocals # Null
    /\ weekLocals[1].positions =
          Len(weekBooks[weekIndex + 1].long) + Len(weekBooks[weekIndex + 1].short)
    /\ weekEquity' = fmul(weekEquity, fadd(fromInt(1), weekLocals[1].weeklyRet))
    /\ weekCurve' = Append(weekCurve, [equity |-> weekEquity',
                                       ret |-> weekLocals[1].weeklyRet])
    /\ weekIndex' = weekIndex + 1
    /\ weekLocals' = Null
    /\ UNCHANGED <<weekBooks, labelVars, forestVars, backtestVars, trainVars, alerted,
                   treeVars>>

NextWeeks == weekStarts \/ positionAdded \/ weekEnds

SpecWeeks == InitWeeks /\ [][NextWeeks]_vars

-----------------------------------------------------------------------------
(* Claims about the forest predictor, checked under SpecPredict *)

\* C4: predictRF returns exactly 4 entries, none negative, that sum to 1, and
\* every tree votes for one class in 0..3, also for rows with null features.
C4_ProbabilityVector ==
    probs # <<>> =>
        /\ DOMAIN probs = 0..3
        /\ \A c \in 0..3 : probs[c][1] >= 0 /\ probs[c][2] > 0
        /\ RSum([i \in 1..4 |-> probs[i - 1]]) = <<1, 1>>
        /\ \A i \in DOMAIN trees : predictTree(trees[i], sample) \in 0..3
        /\ \A c \in 0..3 :
              RMul(probs[c], <<Len(trees), 1>>) =
                 <<Cardinality({i \in DOMAIN trees : predictTree(trees[i], sample) = c}), 1>>

\* A forest of two trees, one stopped at an internal node by a null feature and
\* one voting for another class: the vector holds two halves.
C4_Witness ==
    /\ probs # <<>>
    /\ Len(trees) = 2
    /\ ~trees[1].leaf /\ sample[trees[1].feature] = Null
    /\ probs[0] = <<1, 2>> /\ probs[3] = <<1, 2>>

-----------------------------------------------------------------------------
(* Claims about the importance scorer, checked under SpecImportance *)

RECURSIVE hasInternal(_)
hasInternal(ts) == ts # <<>> /\ (~Head(ts).leaf \/ hasInternal(Tail(ts)))

ImportanceSum == RSum([i \in DOMAIN importance |-> <<importance[i].importance, 1>>])[1]

EveryFeatureOnce ==
    /\ Len(importance) = Len(forestFeatures)
    /\ \A i \in DOMAIN forestFeatures :
          Cardinality({j \in DOMAIN importance : importance[j].feature = forestFeatures[i]}) = 1

\* Importances are in tenths; each is rounded by at most 0.05.
SumIs100UpToRounding == 2 * Abs(ImportanceSum - 1000) <= Len(forestFeatures)

\* C6 as stated: every feature once and a sum of 100 up to rounding, for every forest.
C6_Original ==
    importance # <<>> => EveryFeatureOnce /\ SumIs100UpToRounding

\* C6 amended: calcImportance lists every input feature exactly once; the
\* importances sum to 100 up to rounding when the forest has at least one
\* internal node, and are all 0 when every tree is a single leaf.
C6_Importance ==
    importance # <<>> =>
        /\ EveryFeatureOnce
        /\ hasInternal(trees) => SumIs100UpToRounding
        /\ ~hasInternal(trees) => \A j \in DOMAIN importance : importance[j].importance = 0

\* Three stumps on three different features: 33.3 each, a sum of 99.9.
C6_Witness ==
    /\ importance # <<>>
    /\ Len(trees) = 3
    /\ \A j \in DOMAIN importance : importance[j].importance = 333

-----------------------------------------------------------------------------
(* Claims about the labeler, checked under SpecLabel *)

\* C1: labelRegimes is total: the call is possible for every input, and every
\* input row gets exactly one labeled row carrying a regime in {0,1,2,3}.
C1_LabelTotal ==
    /\ labeled = <<>> => ENABLED Label
    /\ labeled # <<>> =>
         /\ Len(labeled) = Len(data)
         /\ \A i \in DOMAIN data :
               /\ "regime" \in DOMAIN labeled[i]
               /\ labeled[i].regime \in {0, 1, 2, 3}
               /\ \A f \in DOMAIN data[i] : labeled[i][f] = data[i][f]

\* A row whose features are all null and a row reaching the final else are both labeled.
C1_Witness ==
    /\ labeled # <<>>
    /\ \A f \in DOMAIN data[1] : data[1][f] = Null
    /\ labeled[1].regime = 3

\* The ordered rule list of the specification (section 4.1), in hundredths:
\* rules 1..4 are the primary rules, 5..7 the fallback cascade, 8 the final else.
RuleRegime == <<2, 3, 1, 0, 0, 1, 2, 3>>

RuleMatches(k, row) ==
    LET R == Coalesce(row.spx_ret_3w_z, 0)
        V == Coalesce(row.vix_z, 0)
        G == Coalesce(row.pmi_z, 0)
        I == Coalesce(row.breakeven10_z, 0)
    IN CASE k = 1 -> G <= 0 /\ I >= 75 /\ V >= 0
         [] k = 2 -> R >= 50 /\ V <= -50
                     /\ Coalesce(row.vvix_z, 0) + Coalesce(row.rv_3w_z, 0) < -30
         [] k = 3 -> R <= -50 /\ G <= 0 /\ V >= 0
         [] k = 4 -> R >= 50 /\ V <= 0 /\ G >= 0 /\ I >= -50 /\ I <= 75
         [] k = 5 -> R > 0 /\ V < 0
                     /\ Coalesce(row.ip_yoy_z, 0) - Coalesce(row.unemp_z, 0) > 0
         [] k = 6 -> R < 0 /\ V > 0
         [] k = 7 -> I > 50 \/ Coalesce(row.cpi_yoy_z, 0) > 75
         [] k = 8 -> TRUE

FirstMatch(row) ==
    CHOOSE k \in 1..8 : RuleMatches(k, row) /\ \A j \in 1..(k - 1) : ~RuleMatches(j, row)

\* C2: the label of every row is the regime of the first matching rule of the
\* ordered list Stagflation, Overheating, Slowdown, Goldilocks, fallback cascade;
\* Stagflation beats Slowdown, Overheating beats Goldilocks, and the cascade
\* decides only when no primary rule matches.
C2_FirstMatchWins ==
    labeled # <<>> =>
        \A i \in DOMAIN data :
            /\ labeled[i].regime = RuleRegime[FirstMatch(data[i])]
            /\ (RuleMatches(1, data[i]) /\ RuleMatches(3, data[i])) => labeled[i].regime = 2
            /\ (RuleMatches(2, data[i]) /\ RuleMatches(4, data[i])) => labeled[i].regime = 3
            /\ (\E k \in 1..4 : RuleMatches(k, data[i])) =>
                   labeled[i].regime = RuleRegime[FirstMatch(data[i])] /\ FirstMatch(data[i]) <= 4

\* A labeled row that matches both the Stagflation and the Slowdown rule.
C2_Witness ==
    /\ labeled # <<>>
    /\ RuleMatches(1, data[1]) /\ RuleMatches(3, data[1])
    /\ labeled[1].regime = 2

ScenarioA(row) ==
    /\ row.spx_ret_3w_z = Num(100)
    /\ row.vix_z = Num(-100)
    /\ row.pmi_z = Num(100)
    /\ row.breakeven10_z = Num(0)

\* C3 as stated: every scenario-A row is labeled 0 whatever its other features hold.
C3_Original ==
    labeled # <<>> =>
        \A i \in DOMAIN data : ScenarioA(data[i]) => labeled[i].regime = 0

\* C3 amended: a scenario-A row is labeled 0 (Goldilocks) exactly when
\* vvix_z + rv_3w_z (nulls as 0) is not below -0.3, for every value of its
\* other features; when the sum is below -0.3 the Overheating rule, which is
\* tested first, labels it 3.
C3_ScenarioA ==
    labeled # <<>> =>
        \A i \in DOMAIN data : ScenarioA(data[i]) =>
            LET stress == Coalesce(data[i].vvix_z, 0) + Coalesce(data[i].rv_3w_z, 0)
            IN  /\ stress >= -30 => labeled[i].regime = 0
                /\ stress < -30 => labeled[i].regime = 3

\* A labeled scenario-A row whose stress sum is exactly -0.3 and whose other
\* features are not all null.
C3_Witness ==
    /\ labeled # <<>>
    /\ ScenarioA(data[1])
    /\ data[1].vvix_z = Num(-30) /\ data[1].rv_3w_z = Null
    /\ data[1].cpi_yoy_z = Num(100) /\ data[1].unemp_z = Num(50)
    /\ labeled[1].regime = 0

-----------------------------------------------------------------------------
(* Claims about the backtest, checked under SpecBacktest *)

\* The recorded trade weeks of the last backtest, as a set.
RecordedTrades ==
    IF backtest = Null THEN {}
    ELSE {backtest[1].tradesByDate[d] : d \in DOMAIN backtest[1].tradesByDate}

Weights(book) == [j \in DOMAIN book |-> book[j].weight]

\* C7: in every recorded trade week the long weights sum to +1/2 when the long
\* book is not empty and the short weights to -1/2 when the short book is not
\* empty; each weight is 1/2 over the size of its own book, also when the other
\* book is empty.
C7_BookWeights ==
    \A t \in RecordedTrades :
        /\ Len(t.longs) + Len(t.shorts) > 0
        /\ t.longs # <<>> =>
              /\ RSum(Weights(t.longs)) = <<1, 2>>
              /\ \A j \in DOMAIN t.longs : t.longs[j].weight = Rat(1, 2 * Len(t.longs))
        /\ t.shorts # <<>> =>
              /\ RSum(Weights(t.shorts)) = <<-1, 2>>
              /\ \A j \in DOMAIN t.shorts : t.shorts[j].weight = Rat(-1, 2 * Len(t.shorts))

\* A week with two longs and no short, and a week with three shorts.
C7_Witness ==
    /\ \E t \in RecordedTrades :
          Len(t.longs) = 2 /\ t.shorts = <<>> /\ t.longs[1].weight = <<1, 4>>
    /\ \E t \in RecordedTrades :
          Len(t.shorts) = 3 /\ t.shorts[1].weight = <<-1, 6>>

\* The return the stock file holds for a ticker on a date (the file's last such row).
tradeDateReturn(d, ticker) ==
    LET rows == SelectSeq(stockData[1],
                          LAMBDA r : r._dateKey = d /\ r.stock_ticker = ticker)
    IN  Rat(rows[Len(rows)].ret[1], 100)

\* C8: for every recorded trade week, every position's pnl is its weight times
\* the stock's return on the trade date, and the week's return, in the trade
\* record and in the equity curve alike, is the sum of the pnl of all long and
\* short positions.
C8_WeeklyReturn ==
    \A t \in RecordedTrades :
        LET all == t.longs \o t.shorts
            curve == backtest[1].equityCurve
        IN  /\ \A j \in DOMAIN all :
                  /\ all[j].stockRet[1] * tradeDateReturn(t.date, all[j].ticker)[2]
                        = 100 * tradeDateReturn(t.date, all[j].ticker)[1]
                  /\ all[j].pnl = RMul(all[j].weight, tradeDateReturn(t.date, all[j].ticker))
            /\ t.weeklyRet = RSum([j \in DOMAIN all |-> all[j].pnl])
            /\ \E i \in DOMAIN curve : curve[i].date = t.date
            /\ \A i \in DOMAIN curve : curve[i].date = t.date => curve[i].ret = t.weeklyRet

\* A week with both books filled: three longs and one short, a return of 1.5%.
C8_Witness ==
    \E t \in RecordedTrades :
        /\ Len(t.longs) = 3 /\ Len(t.shorts) = 1
        /\ t.shorts[1].pnl # <<0, 1>>
        /\ t.weeklyRet = <<3, 200>>

\* C9: every equity-curve entry is the previous entry's equity (the initial
\* capital 1,000,000 for the first entry) times 1 + the entry's return, for
\* traded and zero-return weeks alike.
C9_Compounding ==
    backtest # Null =>
        LET curve == backtest[1].equityCurve
        IN  \A i \in DOMAIN curve :
                curve[i].equity =
                    RMul(IF i = 1 THEN <<1000000, 1>> ELSE curve[i - 1].equity,
                         RAdd(<<1, 1>>, curve[i].ret))

\* A traded week with a non-zero return, then a zero-return week without a
\* trade record: the equity moves off the initial capital and then stays.
C9_Witness ==
    /\ backtest # Null
    /\ LET curve == backtest[1].equityCurve
       IN  /\ Len(curve) = 2
           /\ curve[1].ret # <<0, 1>> /\ curve[1].equity # <<1000000, 1>>
           /\ curve[2].ret = <<0, 1>> /\ curve[2].equity = curve[1].equity
           /\ curve[2].date \notin DOMAIN backtest[1].tradesByDate

\* The dates present in the regime, the sector and the stock table.
CommonDates ==
    {processedData[1][i]._dateKey : i \in DOMAIN processedData[1]}
    \cap {sectorData[1][i]._dateKey : i \in DOMAIN sectorData[1]}
    \cap {stockData[1][i]._dateKey : i \in DOMAIN stockData[1]}

\* The common dates that are not the earliest one and are not before 2015-01-01.
SimulatedDates ==
    {d \in CommonDates : /\ \E e \in CommonDates : KeyLess(e, d)
                         /\ ~KeyLess(d, <<2015, 1, 1>>)}

\* C10: the equity curve a backtest produces has exactly one entry for every
\* common date that is not the earliest common date and is on or after
\* 2015-01-01, and no other entry, in strictly increasing date order; a
\* backtest produces no curve only when there is no such date.
C10_CurveDates ==
    [][ /\ backtest' = Null => SimulatedDates = {}
        /\ backtest' # Null =>
              LET curve == backtest'[1].equityCurve
              IN  /\ {curve[i].date : i \in DOMAIN curve} = SimulatedDates
                  /\ Len(curve) = Cardinality(SimulatedDates)
                  /\ \A i \in 1..(Len(curve) - 1) : KeyLess(curve[i].date, curve[i + 1].date)
      ]_vars

\* Files that list their dates latest first, with a date that only two of the
\* tables hold: the curve has entries, but none for the earliest common date
\* or for a common date of 2014.
C10_Witness ==
    /\ backtest # Null
    /\ Len(processedData[1]) > 1
    /\ KeyLess(processedData[1][2]._dateKey, processedData[1][1]._dateKey)
    /\ CommonDates # {stockData[1][i]._dateKey : i \in DOMAIN stockData[1]}
       \/ CommonDates # {processedData[1][i]._dateKey : i \in DOMAIN processedData[1]}
    /\ \E d \in CommonDates \ SimulatedDates : \E e \in CommonDates : KeyLess(e, d)
    /\ Len(backtest[1].equityCurve) = Cardinality(SimulatedDates)

-----------------------------------------------------------------------------
(* Claims about re-runs of the backtest, checked under SpecRerun *)

NotEnoughDates == "Not enough overlapping dates between the 3 files."

-----------------------------------------------------------------------------
(* Claims about training, checked under SpecTrain *)

\* C12: when the deferred training run finds no row in the training period
\* (the year the run reads from the row's date is in 2005..2015 for no row), it
\* ends in step "error" and trains nothing: model and results stay as they were.
C12_NoTrainingRows ==
    [][(/\ timers # <<>>
        /\ timers' = Tail(timers)
        /\ \A i \in DOMAIN Head(timers).processedData :
              ~inTraining(Head(timers).processedData[i], timezone))
       => (step' = "error" /\ model' = model /\ results' = results)]_vars

\* After a training run had stored a model, a file with rows of 2004 and 2016
\* only is loaded, and the page is in step "error" with the model still stored.
C12_Witness ==
    /\ step = "error" /\ timers = <<>>
    /\ model # Null /\ results # Null
    /\ dataStats # Null /\ dataStats[1].dateColumn # Null
    /\ processedData # Null /\ processedData[1] # <<>>
    /\ \A i \in DOMAIN processedData[1] :
          processedData[1][i].date[1] \in {2004, 2016}
          /\ ~inTraining(processedData[1][i], timezone)

-----------------------------------------------------------------------------
(* Further claims about the backtest, checked under SpecBacktest *)

NoValidWeeks == "No valid weeks after applying 2015+ cutoff."

-----------------------------------------------------------------------------
(* Further claims about training, checked under SpecTrain *)

\* C14 as stated: in every reachable state at most one training callback is
\* scheduled and has not run yet.
C14_Original == Len(timers) <= 1

\* C15: a run, successful or failed, leaves processedData, sectorData and
\* stockData as they were: the same rows in the same order with the same
\* fields.  (Every step of this specification is a run.)
C15_InputsUnchanged ==
    [][/\ processedData' = processedData
       /\ sectorData' = sectorData
       /\ stockData' = stockData]_vars

\* After a successful run with trades, the stock file still lists its dates
\* latest first and its rows in the file's order, not in ranking order.
C15_Witness ==
    /\ backtest # Null /\ backtest[1].tradeDates # <<>>
    /\ KeyLess(stockData[1][Len(stockData[1])]._dateKey, stockData[1][1]._dateKey)
    /\ \E i \in 1..(Len(stockData[1]) - 1) :
          /\ stockData[1][i]._dateKey = stockData[1][i + 1]._dateKey
          /\ stockData[1][i].ret[1] < stockData[1][i + 1].ret[1]

\* The common date just before d.
previousCommon(d) ==
    CHOOSE p \in CommonDates :
        /\ KeyLess(p, d)
        /\ \A e \in CommonDates : KeyLess(e, d) => (e = p \/ KeyLess(e, p))

\* The stock file's rows of date d, and those of one ticker.
rowsOn(d) == SelectSeq(stockData[1], LAMBDA r : r._dateKey = d)

rowOf(d, ticker) ==
    LET rows == SelectSeq(rowsOn(d), LAMBDA r : r.stock_ticker = ticker)
    IN  rows[Len(rows)]

hasRow(d, ticker) == \E i \in DOMAIN rowsOn(d) : rowsOn(d)[i].stock_ticker = ticker

\* A book of week t.date holds stocks of the given sectors only, each with a
\* row on the date p before, in the order of their returns on p (best first
\* when desc, worst first otherwise) within a sector, each realizing its return
\* of t.date; and it holds every such stock that is among the 5 first of its
\* sector on p and has a return on t.date.
LaggedBook(book, sectors, desc, p, d) ==
    /\ \A j \in DOMAIN book :
          /\ hasRow(p, book[j].ticker)
          /\ rowOf(p, book[j].ticker).sector_etf = book[j].sector_etf
          /\ \E x \in DOMAIN sectors : sectors[x] = book[j].sector_etf
          /\ hasRow(d, book[j].ticker)
          /\ book[j].stockRet = rowOf(d, book[j].ticker).ret
    /\ \A j, k \in DOMAIN book :
          (j < k /\ book[j].sector_etf = book[k].sector_etf) =>
              IF desc
              THEN rowOf(p, book[j].ticker).ret[1] >= rowOf(p, book[k].ticker).ret[1]
              ELSE rowOf(p, book[j].ticker).ret[1] <= rowOf(p, book[k].ticker).ret[1]
    /\ \A i \in DOMAIN rowsOn(p) :
          LET r == rowsOn(p)[i]
              ahead == {x \in DOMAIN rowsOn(p) :
                          /\ rowsOn(p)[x].sector_etf = r.sector_etf
                          /\ IF desc THEN rowsOn(p)[x].ret[1] > r.ret[1]
                                     ELSE rowsOn(p)[x].ret[1] < r.ret[1]}
          IN  ((\E x \in DOMAIN sectors : sectors[x] = r.sector_etf)
               /\ Cardinality(ahead) < 5 /\ hasRow(d, r.stock_ticker))
              => \E j \in DOMAIN book : book[j].ticker = r.stock_ticker

-----------------------------------------------------------------------------
(* Claims about scenario C, checked under SpecScenario *)

\* The stock file of the scenario as stated: rank-date returns 3%, 2%, 1% and
\* trade-date returns 5%, -2%, 1%.
ScenarioC ==
    /\ \A x \in 1..3 : stockData[1][x].ret = Num(4 - x)
    /\ stockData[1][4].ret = Num(5) /\ stockData[1][5].ret = Num(-2)
    /\ stockData[1][6].ret = Num(1)

TheWeek == backtest[1].tradesByDate[<<2015, 1, 8>>]

\* C17 as stated: in scenario C the two top-ranked stocks are held at weight
\* 0.25 each and the week returns 0.25 * 0.05 + 0.25 * (-0.02) = 0.0075.
C17_Original ==
    (backtest # Null /\ ScenarioC) =>
        /\ Len(TheWeek.longs) = 2
        /\ \A j \in DOMAIN TheWeek.longs : TheWeek.longs[j].weight = <<1, 4>>
        /\ TheWeek.weeklyRet = <<3, 400>>

\* C17 amended: with three stocks in the one long sector, all three are held
\* (up to 5 per sector are), each at weight 1/6, in the order of their
\* rank-date returns, no short is held, and the week returns the sum of the
\* trade-date returns over 6: (0.05 - 0.02 + 0.01) / 6 = 1/150 in scenario C.
C17_ScenarioC ==
    backtest # Null =>
        /\ Len(TheWeek.longs) = 3 /\ TheWeek.shorts = <<>>
        /\ \A j \in DOMAIN TheWeek.longs : TheWeek.longs[j].weight = <<1, 6>>
        /\ \A j \in 1..2 :
              rowOf(<<2015, 1, 1>>, TheWeek.longs[j].ticker).ret[1]
                 >= rowOf(<<2015, 1, 1>>, TheWeek.longs[j + 1].ticker).ret[1]
        /\ TheWeek.weeklyRet =
              Rat(stockData[1][4].ret[1] + stockData[1][5].ret[1] + stockData[1][6].ret[1], 600)
        /\ ScenarioC => TheWeek.weeklyRet = <<1, 150>>

\* Scenario C after its run: AAPL, MSFT and NVDA are held in this order.
C17_Witness ==
    /\ backtest # Null /\ ScenarioC
    /\ [j \in 1..3 |-> TheWeek.longs[j].ticker] = <<"AAPL", "MSFT", "NVDA">>
    /\ TheWeek.longs[2].pnl = <<-1, 300>>

\* The regime the macro table holds for date d (its last row of that date).
regimeOn(d) ==
    LET rows == SelectSeq(processedData[1], LAMBDA r : r._dateKey = d)
    IN  rows[Len(rows)].regime

\* The rows of date p that survive as candidates of a book for trade date d:
\* of a configured sector, among the 5 first of the sector on p, with a return on d.
Survivors(sectors, desc, p, d) ==
    {i \in DOMAIN rowsOn(p) :
        LET r == rowsOn(p)[i]
            ahead == {x \in DOMAIN rowsOn(p) :
                        /\ rowsOn(p)[x].sector_etf = r.sector_etf
                        /\ IF desc THEN rowsOn(p)[x].ret[1] > r.ret[1]
                                   ELSE rowsOn(p)[x].ret[1] < r.ret[1]}
        IN  /\ \E x \in DOMAIN sectors : sectors[x] = r.sector_etf
            /\ Cardinality(ahead) < 5
            /\ hasRow(d, r.stock_ticker)}

\* The combined count of surviving long and short candidates of trade date d.
candidateCount(d) ==
    LET config == regimeSectorConfig[regimeOn(d)]
    IN  Cardinality(Survivors(config.long, TRUE, previousCommon(d), d))
        + Cardinality(Survivors(config.short, FALSE, previousCommon(d), d))

\* C18 as stated: every date with an equity-curve entry has a trade record.
C18_Original ==
    backtest # Null =>
        \A i \in DOMAIN backtest[1].equityCurve :
            backtest[1].equityCurve[i].date \in DOMAIN backtest[1].tradesByDate

\* C18 amended: after a successful run there is one trade record (date, regime
\* of the date, weekly return, long and short positions) for exactly the
\* simulated weeks in which at least one candidate survived; a week recorded
\* with zero return because none survived has an equity-curve entry and no
\* trade record.  tradeDates lists the recorded dates in increasing order.
C18_TradeRecords ==
    backtest # Null =>
        LET curve == backtest[1].equityCurve
            trades == backtest[1].tradesByDate
            tradeDates == backtest[1].tradeDates
        IN  /\ \A i \in DOMAIN curve :
                  /\ curve[i].date \in DOMAIN trades <=> candidateCount(curve[i].date) > 0
                  /\ curve[i].date \notin DOMAIN trades => curve[i].ret = <<0, 1>>
            /\ \A d \in DOMAIN trades :
                  /\ \E i \in DOMAIN curve : curve[i].date = d /\ curve[i].ret = trades[d].weeklyRet
                  /\ trades[d].date = d
                  /\ trades[d].regime = regimeOn(d)
                  /\ Len(trades[d].longs) + Len(trades[d].shorts) = candidateCount(d)
            /\ {tradeDates[j] : j \in DOMAIN tradeDates} = DOMAIN trades
            /\ \A j \in 1..(Len(tradeDates) - 1) : KeyLess(tradeDates[j], tradeDates[j + 1])

\* A run with a traded week and, after it, a week with an equity-curve entry
\* of return 0 and no trade record.
C18_Witness ==
    /\ backtest # Null
    /\ Len(backtest[1].equityCurve) = 2
    /\ Len(backtest[1].tradeDates) = 1
    /\ backtest[1].equityCurve[1].date \in DOMAIN backtest[1].tradesByDate
    /\ backtest[1].equityCurve[2].date \notin DOMAIN backtest[1].tradesByDate
    /\ selectedTradeDate = backtest[1].equityCurve[1].date

\* The curve entry before entry i, the initial capital before the first.
equityBefore(curve, i) == IF i = 1 THEN <<1000000, 1>> ELSE curve[i - 1].equity

\* C20: a week is recorded with zero return, and the run goes on with the next
\* date, exactly when the trade date's regime has no entry in
\* regimeSectorConfig or no long or short candidate survives: the week's entry
\* has ret 0 and the equity of the entry before, it counts as one weekly
\* return that is not a win, and it has no trade record; every other simulated
\* week is a traded week.
C20_ZeroReturnWeeks ==
    backtest # Null =>
        LET curve == backtest[1].equityCurve
            zero(i) == \/ regimeOn(curve[i].date) \notin DOMAIN regimeSectorConfig
                       \/ candidateCount(curve[i].date) = 0
        IN  /\ {curve[i].date : i \in DOMAIN curve} = SimulatedDates
            /\ \A i \in DOMAIN curve :
                  /\ zero(i) => /\ curve[i].ret = <<0, 1>>
                                /\ curve[i].equity = equityBefore(curve, i)
                                /\ curve[i].date \notin DOMAIN backtest[1].tradesByDate
                  /\ ~zero(i) => curve[i].date \in DOMAIN backtest[1].tradesByDate
            /\ backtest[1].stats.winRate =
                  Rat(Cardinality({i \in DOMAIN curve : curve[i].ret[1] > 0}), Len(curve))
            /\ backtest[1].stats.finalValue = curve[Len(curve)].equity

\* A week without candidates (the date before holds no stock of a configured
\* sector), recorded with return 0, and after it a traded week.
C20_Witness ==
    /\ backtest # Null
    /\ LET curve == backtest[1].equityCurve
       IN  /\ Len(curve) = 2
           /\ candidateCount(curve[1].date) = 0
           /\ curve[1].ret = <<0, 1>> /\ curve[1].equity = <<1000000, 1>>
           /\ curve[2].date \in DOMAIN backtest[1].tradesByDate
           /\ curve[2].ret # <<0, 1>>

\* The rows of a table whose date is of a year in 2005..2015, and of 2016 or later.
TrainingPartition(rows) ==
    SelectSeq(rows, LAMBDA r : r.date[1] >= 2005 /\ r.date[1] <= 2015)

TestingPartition(rows) == SelectSeq(rows, LAMBDA r : r.date[1] >= 2016)

Dates(rows) == [i \in DOMAIN rows |-> rows[i].date]

\* C19 as stated: a finished training run has used as training rows exactly
\* the rows of a year in 2005..2015 and as testing rows exactly the rows of
\* 2016 or later (rows before 2005 are in neither, no row is in both), and every
\* tree of the forest is trained on training rows only.
C19_Original ==
    [][(timers # <<>> /\ timers' = Tail(timers) /\ step' = "results") =>
          LET rows == Head(timers).processedData
              training == TrainingPartition(rows)
              testing == TestingPartition(rows)
          IN  /\ Dates(results'[1].predictions) = Dates(training)
              /\ Dates(model'[1].testPredictions) = Dates(testing)
              /\ \A i \in DOMAIN training, j \in DOMAIN testing : training[i] # testing[j]
              /\ \A t \in DOMAIN model'[1].trees :
                    \E i \in DOMAIN training :
                        model'[1].trees[t].prediction = training[i].regime]_vars

-----------------------------------------------------------------------------
(* Claims about the five stocks per sector, checked under SpecSix *)

\* The rows of the six stocks on the rank date 2015-01-01, and the stocks that
\* have a finite return on the trade date 2015-01-08.
RankRows == rowsOn(<<2015, 1, 1>>)

HasTradeReturn(ticker) ==
    \E i \in DOMAIN rowsOn(<<2015, 1, 8>>) :
        /\ rowsOn(<<2015, 1, 8>>)[i].stock_ticker = ticker
        /\ isFinite(rowsOn(<<2015, 1, 8>>)[i].ret)

\* The sets of 5 rank-date rows that are 5 highest (desc) or 5 lowest returns.
FiveFirst(desc) ==
    { top \in SUBSET (DOMAIN RankRows) :
        /\ Cardinality(top) = 5
        /\ \A a \in top, b \in (DOMAIN RankRows) \ top :
              IF desc THEN RankRows[a].ret[1] >= RankRows[b].ret[1]
                      ELSE RankRows[a].ret[1] <= RankRows[b].ret[1] }

\* A book holds exactly the stocks of one such set of 5 that have a finite
\* return on the trade date, each once and with that return.
HoldsFiveFirst(book, desc) ==
    /\ Len(book) <= 5
    /\ \A j, k \in DOMAIN book : book[j].ticker = book[k].ticker => j = k
    /\ \A j \in DOMAIN book : book[j].stockRet = rowOf(<<2015, 1, 8>>, book[j].ticker).ret
    /\ \E top \in FiveFirst(desc) :
          {book[j].ticker : j \in DOMAIN book}
             = {RankRows[a].stock_ticker : a \in {b \in top : HasTradeReturn(RankRows[b].stock_ticker)}}

\* C21: in a traded week the long book holds, of a long sector, at most 5
\* stocks: those of the sector's 5 highest rank-date returns that have a finite
\* return on the trade date, each with that return; the short book likewise
\* of the 5 lowest.  A stock of the 5 without a trade-date return is dropped
\* and the sixth does not take its place.
C21_FivePerSector ==
    (backtest # Null /\ <<2015, 1, 8>> \in DOMAIN backtest[1].tradesByDate) =>
        IF RankRows[1].sector_etf = "XLK US Equity"
        THEN HoldsFiveFirst(TheWeek.longs, TRUE) /\ TheWeek.shorts = <<>>
        ELSE HoldsFiveFirst(TheWeek.shorts, FALSE) /\ TheWeek.longs = <<>>

\* A traded week in which NVDA, ranked second, has no row on the trade date and
\* CSCO, ranked third, has an infinite return there: AAPL, INTC and ORCL are
\* held long, and MSFT, ranked sixth, is not although it has a return.
C21_Witness ==
    /\ backtest # Null /\ <<2015, 1, 8>> \in DOMAIN backtest[1].tradesByDate
    /\ [x \in 1..6 |-> RankRows[x].ret[1]] = <<6, 1, 5, 2, 4, 3>>
    /\ RankRows[1].sector_etf = "XLK US Equity"
    /\ HasTradeReturn("MSFT") /\ ~hasRow(<<2015, 1, 8>>, "NVDA")
    /\ hasRow(<<2015, 1, 8>>, "CSCO") /\ ~HasTradeReturn("CSCO")
    /\ [j \in DOMAIN TheWeek.longs |-> TheWeek.longs[j].ticker] = <<"AAPL", "INTC", "ORCL">>

-----------------------------------------------------------------------------
(* Claims about tree training and the trees it builds, checked under SpecTree *)

\* The internal nodes built so far, and whether a row stops at one: its cell
\* of the node's split feature is null or not a number.
InternalNodes == {n \in nodes : ~n.leaf}

stopsAt(n, s) == s[n.feature] = Null \/ isNaN(s[n.feature])

\* C22 as stated: predictTree, at an internal node whose split feature is null
\* or not a number in the row, returns the majority class of the training rows
\* that reached the node when it was built.
C22_Original ==
    (stack = <<>> /\ calls > 0) =>
        /\ \A n \in InternalNodes :
              stopsAt(n, sample) => predictTree(treeAt(nodes, n.path), sample) = majority(n.data)
        /\ \A n \in InternalNodes :
              (n.path = <<>> /\ stopsAt(n, sample)) => probs[majority(n.data)] # <<0, 1>>

\* A candidate (feature, quarter) of a call survives when the feature has
\* values in the rows and its threshold leaves at least 5 rows on each side.
Survives(rows, feature, quarter) ==
    /\ Len(valuesOf(rows, feature)) > 0
    /\ Len(leftOf(rows, feature, thresholdAt(valuesOf(rows, feature), quarter))) >= 5
    /\ Len(rightOf(rows, feature, thresholdAt(valuesOf(rows, feature), quarter))) >= 5

\* The finished calls that went past the stop condition and drew features.
SplittingCalls == {n \in nodes : n.selected # <<>>}

\* C23 as stated: a call none of whose candidates survives the
\* minimum-partition-size check returns a leaf predicting the majority class,
\* and every internal node has at least 5 of its training rows on each side
\* of its split.
C23_Original ==
    /\ \A n \in SplittingCalls :
          (\A i \in DOMAIN n.selected, q \in 1..3 : ~Survives(n.data, n.selected[i], q))
              => (n.leaf /\ n.prediction = Num(majority(n.data)))
    /\ \A n \in InternalNodes :
          /\ Len(leftOf(n.data, n.feature, n.threshold)) >= 5
          /\ Len(rightOf(n.data, n.feature, n.threshold)) >= 5

\* C24 as stated: a call that goes past the stop condition draws as many
\* features as the square root of the number of features, rounded up (5 of the
\* 21), none of them twice.
C24_Original ==
    /\ \A n \in SplittingCalls :
          LET k == Len(n.selected)
          IN  /\ k * k >= Len(treeFeatures)
              /\ (k - 1) * (k - 1) < Len(treeFeatures)
              /\ \A i, j \in 1..k : n.selected[i] = n.selected[j] => i = j
              /\ numFeaturesOf(expectedFeatures) = 5

\* C24 amended: a call that goes past the stop condition draws as many of the
\* features as the square root of their number, rounded down (4 of the 21),
\* none of them twice.
C24_FeatureSubset ==
    /\ \A n \in SplittingCalls :
          LET k == Len(n.selected)
          IN  /\ k >= 1
              /\ k * k <= Len(treeFeatures)
              /\ (k + 1) * (k + 1) > Len(treeFeatures)
              /\ \A i \in 1..k : \E x \in DOMAIN treeFeatures : treeFeatures[x] = n.selected[i]
              /\ \A i, j \in 1..k : n.selected[i] = n.selected[j] => i = j
              /\ numFeaturesOf(expectedFeatures) = 4

\* A call that split its rows after drawing fewer features than the square
\* root of their number.
C24_Witness ==
    \E n \in InternalNodes :
        /\ Len(n.selected) >= 1
        /\ Len(n.selected) * Len(n.selected) < Len(treeFeatures)
        /\ n.feature = n.selected[Len(n.selected)]

\* The calls entered so far, finished or not, with their rows and depth.
EnteredCalls ==
    {[path |-> n.path, depth |-> n.depth, data |-> n.data] : n \in nodes}
    \cup {stack[i] : i \in DOMAIN stack}

\* The call that made the call c.
parentOf(c) == CHOOSE n \in nodes : n.path = SubSeq(c.path, 1, Len(c.path) - 1)

\* The work left: a call on n rows is followed by at most 2n - 1 calls, itself
\* included.
RECURSIVE pendingWork(_)
pendingWork(st) ==
    IF st = <<>> THEN 0 ELSE (2 * Len(Head(st).data) - 1) + pendingWork(Tail(st))

\* C25: trainDecisionTree terminates and no node of its tree is deeper than
\* 12.  A call at depth 12 or more, or on fewer than 15 rows, returns a leaf
\* without drawing features or splitting; a call made by another call is one
\* level deeper and gets strictly fewer rows, and at least one, than the call
\* that made it; every call that runs lowers the work left, which is never
\* negative, and the tree is returned once no call is left.
C25_Terminates ==
    /\ [](\A n \in nodes :
            /\ n.depth <= 12
            /\ (n.depth >= 12 \/ Len(n.data) < 15) => (n.leaf /\ n.selected = <<>>))
    /\ [](\A c \in EnteredCalls :
            c.path # <<>> =>
                /\ ~parentOf(c).leaf
                /\ c.depth = parentOf(c).depth + 1
                /\ Len(c.data) < Len(parentOf(c).data)
                /\ Len(c.data) > 0)
    /\ [](stack = <<>> <=> Len(trees) = numTrees)
    /\ [][stack' # stack => pendingWork(stack') < pendingWork(stack)]_vars

\* A call at depth 12 on 15 rows or more, made by a call at depth 11, that
\* returned a leaf.
C25_Witness ==
    \E n \in nodes :
        /\ n.path # <<>> /\ n.depth = 12 /\ Len(n.data) >= 15 /\ n.leaf
        /\ parentOf(n).depth = 11

\* How many of the rows have regime c.
rowsOfClass(rows, c) == Cardinality({i \in DOMAIN rows : rows[i].regime = c})

\* x < y and x <= y for rationals
RLess(x, y) == x[1] * y[2] < y[1] * x[2]

RLeq(x, y) == x[1] * y[2] <= y[1] * x[2]

\* C26: every leaf predicts a class that no class exceeds in the number of
\* the leaf's rows and that every class of lower id falls short of (the
\* lowest id among the most frequent; class 0 for no rows), and the class
\* reported for a vector of forest probabilities is, in the same way, the
\* lowest id among the most probable.
C26_MajorityLowestId ==
    /\ \A n \in nodes :
          n.leaf =>
              /\ \A e \in Classes :
                    rowsOfClass(n.data, e) <= rowsOfClass(n.data, n.prediction[1])
              /\ \A e \in Classes :
                    e < n.prediction[1] =>
                        rowsOfClass(n.data, e) < rowsOfClass(n.data, n.prediction[1])
              /\ leafNode([path |-> <<>>, depth |-> n.depth, data |-> <<>>], <<>>).prediction
                    = Num(0)
    /\ predicted # Null =>
          /\ \A e \in Classes : RLeq(probs[e], probs[predicted[1]])
          /\ \A e \in Classes : e < predicted[1] => RLess(probs[e], probs[predicted[1]])

\* A tree that is one leaf on two rows of regime 2 and two of regime 1 and
\* predicts 1, in a forest whose other tree predicts 2: the probabilities of 1
\* and 2 are both 1/2 and the class reported is 1.
C26_Witness ==
    /\ \E n \in nodes :
          /\ n.leaf /\ n.path = <<>> /\ n.prediction = Num(1)
          /\ rowsOfClass(n.data, 1) = 2 /\ rowsOfClass(n.data, 2) = 2
    /\ predicted = Num(1)
    /\ probs[1] = probs[2] /\ probs[1] # <<0, 1>>

-----------------------------------------------------------------------------
(* Claims about the training run, checked under SpecTrainRun *)

\* C27: a training run that was started runs to completion.  While the step
\* is "training" a deferred task is pending, and, the browser running every
\* pending task, the step then becomes "results" or "error"; in step "results"
\* the model and the results are set.
C27_TrainingCompletes ==
    /\ [](step = "training" => timers # <<>>)
    /\ [](step = "results" => (model # Null /\ results # Null))
    /\ (step = "training") ~> (step \in {"results", "error"})

\* A run that completed: no task is pending and the page shows the results of
\* a forest of numTrees trees.
C27_Witness ==
    /\ step = "results" /\ timers = <<>>
    /\ model # Null /\ Len(model[1].trees) = numTrees
    /\ results # Null

-----------------------------------------------------------------------------
(* Claims about the backtest and the trained forest, checked under SpecForests *)

\* A run of runBacktest has happened: it stored a result or raised an alert.
BacktestRan == backtest # Null \/ alerted # ""

\* C28: the backtest does not depend on the trained forest: whatever model and
\* results the page holds, a run stores the curve, trades and statistics that
\* processedData, sectorData and stockData alone determine, and the regime of
\* every trade record is the rule-based label the macro table holds for the
\* trade date.
C28_ForestIndependent ==
    BacktestRan =>
        /\ backtest = backtestResult(processedData[1], sectorData[1], stockData[1])
        /\ backtest # Null =>
              \A d \in DOMAIN backtest[1].tradesByDate :
                  backtest[1].tradesByDate[d].regime = regimeOn(d)

\* A run under a forest that predicts Slowdown for every row recorded a
\* Stagflation week and a Goldilocks week, as the macro table labels them.
C28_Witness ==
    /\ backtest # Null
    /\ model[1].trees[1].prediction = 1
    /\ results[1].accuracy = 0
    /\ \E d, e \in DOMAIN backtest[1].tradesByDate :
          /\ backtest[1].tradesByDate[d].regime = 2
          /\ backtest[1].tradesByDate[d].longs # <<>>
          /\ backtest[1].tradesByDate[e].regime = 0

-----------------------------------------------------------------------------
(* Claims about uploads during a pending training run, checked under SpecTrain *)

\* The model and results a training run on the rows may store.
TrainedOn(rows) ==
    LET trainingData == SelectSeq(rows, LAMBDA r : inTraining(r, timezone))
        testingData == SelectSeq(rows, LAMBDA r : inTesting(r, timezone))
    IN  /\ Len(trainingData) > 0
        /\ \E ts \in trainRandomForest(trainingData) :
              /\ model = Num([trees |-> ts,
                              importance |-> calcImportance(ts, forestFeatures),
                              testPredictions |-> testPreds(ts, testingData)])
              /\ results = Num([predictions |-> trainPreds(ts, trainingData),
                                accuracy |-> trainAcc(trainPreds(ts, trainingData))])

\* C29: whenever the step is "results", the stored model and results were
\* computed from the processedData the page holds now.
C29_Original ==
    step = "results" => (processedData # Null /\ TrainedOn(processedData[1]))

-----------------------------------------------------------------------------
(* Claims about the size of the weekly return, checked under SpecWeeks *)

\* -1 < r < 1
strictlyWithinOne(r) == fless(fromInt(-1), r) /\ fless(r, fromInt(1))

\* Every stock return used on the first j trade dates is strictly between -1 and 1.
ReturnsWithinOne(j) ==
    \A i \in 1..j :
        /\ \A k \in DOMAIN weekBooks[i].long : strictlyWithinOne(weekBooks[i].long[k])
        /\ \A k \in DOMAIN weekBooks[i].short : strictlyWithinOne(weekBooks[i].short[k])

\* C30: if every stock return used on a trade date is strictly between -1 and +1,
\* every weekly return is strictly greater than -1 and the equity of every entry
\* of the equity curve is strictly positive.
C30_Original ==
    \A j \in 1..weekIndex :
        ReturnsWithinOne(j) =>
            /\ fless(fromInt(-1), weekCurve[j].ret)
            /\ fless(fromInt(0), weekCurve[j].equity)

====
